---- MODULE Spec2Model ----
(***************************************************************************)
(* go-monitoring: the asynchronous batch writer (logwriter.Writer), its    *)
(* producers (Writer.Write), its worker goroutines (Writer.worker,         *)
(* Writer.flush) and its shutdown path (Writer.Shutdown, Monitor.Shutdown, *)
(* the server's OnShutdown hook).                                          *)
(***************************************************************************)
EXTENDS Integers, Sequences, FiniteSets, TLC

\* ---------------------------------------------------------------- bounds
MaxBatchSize == 2       \* largest Options.BatchSize drawn
MaxBufferSize == 2      \* largest Options.BufferSize drawn
MaxRecords == 2         \* Write calls issued in one behaviour
TickPeriod == 2         \* Options.FlushInterval, in clock units
E2EScale == 1           \* end-to-end scenario: 100/250/1000 = 50 x (2/5/20)

\* ------------------------------------------------- defaults of logwriter.New
DefaultBufferSize == 10000
DefaultBatchSize == 100
DefaultWorkers == 1

\* Goroutines calling Write concurrently (HTTP handlers running the middleware).
Producers == {"h1", "h2"}
\* Callers of Shutdown: the server's OnShutdown hook and a manual Monitor.Shutdown.
Closers == {"hook", "manual"}
\* The worker goroutines New may start: Options.Workers is 1 or 2.
Workers == {1, 2}

VARIABLES
    ch,          \* w.ch: [buf: queued records, cap: capacity, closed: close(w.ch) done]
    batchSize,   \* w.batchSize
    closed,      \* w.closed
    mu,          \* w.mu: [readers: RLock holders, writer: "none" | "pending" | "held"]
    once,        \* w.once: "fresh" | "running" | "done"
    wg,          \* w.wg counter
    done,        \* w.done is closed
    panicked,    \* a goroutine panicked (send on / close of a closed channel)
    ppc,         \* producer -> position inside Write
    entry,       \* producer -> the record its current Write carries (0: none)
    nextId,      \* next record identity
    quota,       \* Write calls the callers issue in this behaviour
    spc,         \* closer -> position inside Shutdown
    wpc,         \* worker -> position inside worker()
    batch,       \* worker -> its private batch
    why,         \* worker -> what triggered the flush in progress
    ticker,      \* worker -> a tick is waiting in ticker.C (capacity 1)
    untilTick,   \* worker -> clock units until its ticker fires next
    age,         \* worker -> clock units since its batch became non-empty
    flushes,     \* history: every flush call, in call order, with the sink's answer
    db,          \* records the sink has persisted
    accepted,    \* history: records sent into w.ch, in send order
    dropped,     \* history: records a Write dropped because the buffer was full
    late,        \* history: records whose Write found w.closed set
    logged,      \* history: records for which a warning was logged
    closes,      \* history: [ch: close(w.ch) calls, done: close(w.done) calls, drains: wg.Wait calls]
    table,       \* rows of monitoring_request_logs the read path queries
    jobs,        \* rows of monitoring_job_logs
    now,         \* time.Now() as the read operation reads it (seconds)
    qpc,         \* position inside the read operation (Analyze or FindAll)
    q            \* the read operation's filter, locals and result

vars == <<ch, batchSize, closed, mu, once, wg, done, panicked, ppc, entry, nextId, quota,
          spc, wpc, batch, why, ticker, untilTick, age, flushes, db,
          accepted, dropped, late, logged, closes, table, jobs, now, qpc, q>>

writerVars == <<ch, batchSize, closed, mu, once, wg, done, panicked>>
producerVars == <<ppc, entry, nextId, quota>>
workerVars == <<wpc, batch, why>>
clockVars == <<ticker, untilTick, age>>
sinkVars == <<flushes, db>>
historyVars == <<accepted, dropped, late, logged, closes>>
readVars == <<table, jobs, now, qpc, q>>
pipelineVars == <<writerVars, producerVars, spc, workerVars, clockVars, sinkVars, historyVars>>

\* ------------------------------------------------------------------ helpers
Range(s) == {s[i] : i \in 1..Len(s)}

RECURSIVE Flatten(_)
Flatten(ss) == IF ss = <<>> THEN <<>> ELSE Head(ss) \o Flatten(Tail(ss))

Min(a, b) == IF a <= b THEN a ELSE b

\* ------------------------------------------------------------ logwriter.New
\* Non-positive options are replaced by the defaults.
New(opts) ==
    [BufferSize |-> IF opts.BufferSize <= 0 THEN DefaultBufferSize ELSE opts.BufferSize,
     BatchSize |-> IF opts.BatchSize <= 0 THEN DefaultBatchSize ELSE opts.BatchSize,
     Workers |-> IF opts.Workers <= 0 THEN DefaultWorkers ELSE opts.Workers]

OptionsSet ==
    [BufferSize : 1..MaxBufferSize, BatchSize : 1..MaxBatchSize, Workers : Workers]
        \cup {[BufferSize |-> 0, BatchSize |-> 0, Workers |-> 0]}

\* The state New leaves the writer in, with n Write calls to come.
WriterInit(opts, n) ==
    LET o == New(opts) IN
    /\ ch = [buf |-> <<>>, cap |-> o.BufferSize, closed |-> FALSE]
    /\ batchSize = o.BatchSize
    /\ closed = FALSE
    /\ mu = [readers |-> {}, writer |-> "none"]
    /\ once = "fresh"
    /\ wg = o.Workers
    /\ done = FALSE
    /\ panicked = FALSE
    /\ ppc = [p \in Producers |-> "idle"]
    /\ entry = [p \in Producers |-> 0]
    /\ nextId = 1
    /\ quota = n
    /\ spc = [s \in Closers |-> "idle"]
    /\ wpc = [w \in Workers |-> IF w <= o.Workers THEN "select" ELSE "absent"]
    /\ batch = [w \in Workers |-> <<>>]
    /\ why = [w \in Workers |-> "none"]
    /\ ticker = [w \in Workers |-> FALSE]
    /\ untilTick = [w \in Workers |-> TickPeriod]
    /\ age = [w \in Workers |-> 0]
    /\ flushes = <<>>
    /\ db = {}
    /\ accepted = <<>>
    /\ dropped = {}
    /\ late = {}
    /\ logged = {}
    /\ closes = [ch |-> 0, done |-> 0, drains |-> 0]

\* No read operation is in progress and the table is empty.
ReadIdle ==
    /\ table = {}
    /\ jobs = {}
    /\ now = 0
    /\ qpc = "off"
    /\ q = [op |-> "none"]

InitWith(opts, n) == WriterInit(opts, n) /\ ReadIdle

Init == \E opts \in OptionsSet : InitWith(opts, MaxRecords)

\* ------------------------------------------------------------- Writer.Write
\* A producer calls Write(entry): the record gets its identity here.
WriteCall(p) ==
    /\ ppc[p] = "idle"
    /\ nextId <= quota
    /\ ppc' = [ppc EXCEPT ![p] = "rlock"]
    /\ entry' = [entry EXCEPT ![p] = nextId]
    /\ nextId' = nextId + 1
    /\ UNCHANGED <<quota, writerVars, spc, workerVars, clockVars, sinkVars, historyVars>>
    /\ UNCHANGED readVars

\* w.mu.RLock(): blocks while a writer holds or waits for the lock.
WriteRLock(p) ==
    /\ ppc[p] = "rlock"
    /\ mu.writer = "none"
    /\ mu' = [mu EXCEPT !.readers = @ \cup {p}]
    /\ ppc' = [ppc EXCEPT ![p] = "check"]
    /\ UNCHANGED <<ch, batchSize, closed, once, wg, done, panicked, entry, nextId, quota,
                   spc, workerVars, clockVars, sinkVars, historyVars>>
    /\ UNCHANGED readVars

\* Fault: Write does not test w.closed.
SeesClosed_Never(c) == FALSE

\* The test of if w.closed { return }
SeesClosed(c) == c

\* if w.closed { return }
WriteCheckClosed(p) ==
    /\ ppc[p] = "check"
    /\ ppc' = [ppc EXCEPT ![p] = IF SeesClosed(closed) THEN "runlock" ELSE "send"]
    /\ late' = IF SeesClosed(closed) THEN late \cup {entry[p]} ELSE late
    /\ UNCHANGED <<writerVars, entry, nextId, quota, spc, workerVars, clockVars, sinkVars,
                   accepted, dropped, logged, closes>>
    /\ UNCHANGED readVars

\* Fault: the send ignores the capacity of the channel.
CanSend_Unbounded(c) == TRUE

\* The send case of the select is ready while the buffer has room.
CanSend(c) == Len(c.buf) < c.cap

\* Fault: a plain send w.ch <- entry, without the default case.
SendProceeds_Blocking(c) == c.closed \/ CanSend(c)

\* A select with a default case never waits.
SendProceeds(c) == TRUE

\* Fault: the default case drops the entry without the log line.
WarnsOnFull_Silent(e) == {}

\* default: log.Println("... log buffer full, dropping entry"): the entries
\* the warning of the default case accounts for.
WarnsOnFull(e) == {e}

\* select { case w.ch <- entry: default: log.Println(...) }
\* A send on a closed channel panics; a full buffer takes the default case.
WriteSend(p) ==
    /\ ppc[p] = "send"
    /\ SendProceeds(ch)
    /\ ppc' = [ppc EXCEPT ![p] = "runlock"]
    /\ IF ch.closed
         THEN /\ panicked' = TRUE
              /\ UNCHANGED <<ch, accepted, dropped, logged>>
         ELSE IF CanSend(ch)
           THEN /\ ch' = [ch EXCEPT !.buf = Append(@, entry[p])]
                /\ accepted' = Append(accepted, entry[p])
                /\ UNCHANGED <<panicked, dropped, logged>>
           ELSE /\ dropped' = dropped \cup {entry[p]}
                /\ logged' = logged \cup WarnsOnFull(entry[p])
                /\ UNCHANGED <<panicked, ch, accepted>>
    /\ UNCHANGED <<batchSize, closed, mu, once, wg, done, entry, nextId, quota, spc,
                   workerVars, clockVars, sinkVars, late, closes>>
    /\ UNCHANGED readVars

\* defer w.mu.RUnlock(); Write returns.
WriteRUnlock(p) ==
    /\ ppc[p] = "runlock"
    /\ mu' = [mu EXCEPT !.readers = @ \ {p}]
    /\ ppc' = [ppc EXCEPT ![p] = "idle"]
    /\ entry' = [entry EXCEPT ![p] = 0]
    /\ UNCHANGED <<ch, batchSize, closed, once, wg, done, panicked, nextId, quota,
                   spc, workerVars, clockVars, sinkVars, historyVars>>
    /\ UNCHANGED readVars

\* ---------------------------------------------------------- Writer.Shutdown
\* Fault: the body of Shutdown is not guarded by once.Do.
OnceRuns_Always(o) == TRUE

\* w.once.Do(f): only the first caller runs f; a caller arriving while f runs
\* waits for it to return; a caller arriving later returns at once.
OnceRuns(o) == o = "fresh"

ShutdownCall(s) ==
    /\ spc[s] = "idle"
    /\ IF OnceRuns(once)
         THEN /\ once' = "running"
              /\ spc' = [spc EXCEPT ![s] = "lock"]
         ELSE /\ once' = once
              /\ spc' = [spc EXCEPT ![s] = IF once = "done" THEN "returned" ELSE "onceWait"]
    /\ UNCHANGED <<ch, batchSize, closed, mu, wg, done, panicked, producerVars,
                   workerVars, clockVars, sinkVars, historyVars>>
    /\ UNCHANGED readVars

\* The waiting caller of once.Do returns when the first call has returned.
ShutdownOnceWait(s) ==
    /\ spc[s] = "onceWait"
    /\ once = "done"
    /\ spc' = [spc EXCEPT ![s] = "returned"]
    /\ UNCHANGED <<writerVars, producerVars, workerVars, clockVars, sinkVars, historyVars>>
    /\ UNCHANGED readVars

\* w.mu.Lock(), first half: the writer announces itself; new RLock calls block.
ShutdownLock(s) ==
    /\ spc[s] = "lock"
    /\ mu.writer = "none"
    /\ mu' = [mu EXCEPT !.writer = "pending"]
    /\ spc' = [spc EXCEPT ![s] = "lockWait"]
    /\ UNCHANGED <<ch, batchSize, closed, once, wg, done, panicked, producerVars,
                   workerVars, clockVars, sinkVars, historyVars>>
    /\ UNCHANGED readVars

\* w.mu.Lock(), second half: acquired once the active readers have left;
\* then w.closed = true, written with the lock held.
ShutdownSetClosed(s) ==
    /\ spc[s] = "lockWait"
    /\ mu.readers = {}
    /\ mu' = [mu EXCEPT !.writer = "held"]
    /\ closed' = TRUE
    /\ spc' = [spc EXCEPT ![s] = "unlock"]
    /\ UNCHANGED <<ch, batchSize, once, wg, done, panicked, producerVars,
                   workerVars, clockVars, sinkVars, historyVars>>
    /\ UNCHANGED readVars

\* w.mu.Unlock()
ShutdownUnlock(s) ==
    /\ spc[s] = "unlock"
    /\ mu' = [mu EXCEPT !.writer = "none"]
    /\ spc' = [spc EXCEPT ![s] = "closeCh"]
    /\ UNCHANGED <<ch, batchSize, closed, once, wg, done, panicked, producerVars,
                   workerVars, clockVars, sinkVars, historyVars>>
    /\ UNCHANGED readVars

\* close(w.ch): closing a closed channel panics.
ShutdownCloseCh(s) ==
    /\ spc[s] = "closeCh"
    /\ spc' = [spc EXCEPT ![s] = "wgWait"]
    /\ ch' = [ch EXCEPT !.closed = TRUE]
    /\ panicked' = (panicked \/ ch.closed)
    /\ closes' = [closes EXCEPT !.ch = @ + 1]
    /\ UNCHANGED <<batchSize, closed, mu, once, wg, done, producerVars,
                   workerVars, clockVars, sinkVars,
                   accepted, dropped, late, logged>>
    /\ UNCHANGED readVars

\* Fault: Shutdown does not wait for the workers.
WaitReturns_Always(n) == TRUE

\* w.wg.Wait() returns when every worker has called wg.Done().
WaitReturns(n) == n = 0

\* w.wg.Wait() returns; close(w.done) (closing a closed channel panics); f
\* returns, once.Do marks itself done and Shutdown returns.
ShutdownCloseDone(s) ==
    /\ spc[s] = "wgWait"
    /\ WaitReturns(wg)
    /\ done' = TRUE
    /\ panicked' = (panicked \/ done)
    /\ closes' = [closes EXCEPT !.done = @ + 1, !.drains = @ + 1]
    /\ once' = "done"
    /\ spc' = [spc EXCEPT ![s] = "returned"]
    /\ UNCHANGED <<ch, batchSize, closed, mu, wg, producerVars,
                   workerVars, clockVars, sinkVars,
                   accepted, dropped, late, logged>>
    /\ UNCHANGED readVars

\* ------------------------------------------------------------ Writer.worker
\* Fault: len(batch) > w.batchSize, off by one.
BatchFull_Late(b) == Len(b) > batchSize

\* len(batch) >= w.batchSize
BatchFull(b) == Len(b) >= batchSize

\* Fault: the tick case does not flush.
TickFlushes_Never(b) == FALSE

\* len(batch) > 0, the guard of the tick flush
TickFlushes(b) == Len(b) > 0

\* Fault: the worker returns on closure without the final flush.
FinalFlushes_Never(b) == FALSE

\* len(batch) > 0, the guard of the final flush
FinalFlushes(b) == Len(b) > 0

\* Fault: a rejected batch is kept and flushed again.
AfterFlush_KeepOnError(b, ok) == IF ok THEN <<>> ELSE b

\* batch = batch[:0] after w.flush(batch), whatever the sink answered
AfterFlush(b, ok) == <<>>

\* w.flush(batch) is called: the worker is inside db.Create until it returns.
StartFlush(w, b, reason) ==
    /\ wpc' = [wpc EXCEPT ![w] = "flush"]
    /\ batch' = [batch EXCEPT ![w] = b]
    /\ why' = [why EXCEPT ![w] = reason]
    /\ flushes' = Append(flushes, [worker |-> w, recs |-> b, why |-> reason, res |-> "pending"])
    /\ age' = [age EXCEPT ![w] = 0]

\* Fault: the entry is put in front of the batch.
Collect_Front(b, e) == <<e>> \o b

\* batch = append(batch, entry)
Collect(b, e) == Append(b, e)

\* case entry, ok := <-w.ch with ok: append, flush when the batch is full.
WorkerRecv(w) ==
    /\ wpc[w] = "select"
    /\ ch.buf # <<>>
    /\ ch' = [ch EXCEPT !.buf = Tail(@)]
    /\ LET b == Collect(batch[w], Head(ch.buf)) IN
         IF BatchFull(b)
           THEN StartFlush(w, b, "size")
           ELSE /\ batch' = [batch EXCEPT ![w] = b]
                /\ UNCHANGED <<wpc, why, flushes, age>>
    /\ UNCHANGED <<batchSize, closed, mu, once, wg, done, panicked, producerVars, spc,
                   ticker, untilTick, db,
                   accepted, dropped, late, logged, closes>>
    /\ UNCHANGED readVars

\* case entry, ok := <-w.ch with !ok: the channel is closed and drained.
WorkerRecvClosed(w) ==
    /\ wpc[w] = "select"
    /\ ch.buf = <<>>
    /\ ch.closed
    /\ IF FinalFlushes(batch[w])
         THEN /\ StartFlush(w, batch[w], "close")
              /\ UNCHANGED wg
         ELSE /\ wpc' = [wpc EXCEPT ![w] = "exited"]
              /\ wg' = wg - 1
              /\ UNCHANGED <<batch, why, flushes, age>>
    /\ UNCHANGED <<ch, batchSize, closed, mu, once, done, panicked, producerVars, spc,
                   ticker, untilTick, db,
                   accepted, dropped, late, logged, closes>>
    /\ UNCHANGED readVars

\* case <-ticker.C: flush a non-empty batch.
OnTick(w) ==
    /\ IF TickFlushes(batch[w])
         THEN StartFlush(w, batch[w], "tick")
         ELSE UNCHANGED <<wpc, batch, why, flushes, age>>
    /\ UNCHANGED <<writerVars, producerVars, spc, untilTick, db,
                   accepted, dropped, late, logged, closes>>
    /\ UNCHANGED readVars

\* The worker, waiting in select, receives the tick waiting in ticker.C.
WorkerTick(w) ==
    /\ wpc[w] = "select"
    /\ ticker[w]
    /\ ticker' = [ticker EXCEPT ![w] = FALSE]
    /\ OnTick(w)

\* ------------------------------------------------------------- Writer.flush
\* db.Create(&batch) returns: ok, or an error that is logged and dropped.
\* The worker then clears its batch, or returns after the final flush.
FlushReturn(w, ok) ==
    /\ wpc[w] = "flush"
    /\ db' = IF ok THEN db \cup Range(batch[w]) ELSE db
    /\ flushes' = [i \in 1..Len(flushes) |->
                     IF flushes[i].worker = w /\ flushes[i].res = "pending"
                       THEN [flushes[i] EXCEPT !.res = IF ok THEN "ok" ELSE "err"]
                       ELSE flushes[i]]
    /\ why' = [why EXCEPT ![w] = "none"]
    /\ IF why[w] = "close"
         THEN /\ wpc' = [wpc EXCEPT ![w] = "exited"]
              /\ wg' = wg - 1
              /\ UNCHANGED batch
         ELSE /\ wpc' = [wpc EXCEPT ![w] = "select"]
              /\ batch' = [batch EXCEPT ![w] = AfterFlush(batch[w], ok)]
              /\ UNCHANGED wg
    /\ UNCHANGED <<ch, batchSize, closed, mu, once, done, panicked, producerVars, spc,
                   clockVars, historyVars>>
    /\ UNCHANGED readVars

\* ------------------------------------------------------------- time.Ticker
\* Untimed: the ticker may fire at any moment. A tick that fires while the
\* worker is inside flush waits in ticker.C and is received when the worker is
\* back in select, so every tick reaches the worker while it waits in select.
TickerFire(w) ==
    /\ wpc[w] = "select"
    /\ UNCHANGED ticker
    /\ OnTick(w)

Next ==
    \/ \E p \in Producers : WriteCall(p)
    \/ \E p \in Producers : WriteRLock(p)
    \/ \E p \in Producers : WriteCheckClosed(p)
    \/ \E p \in Producers : WriteSend(p)
    \/ \E p \in Producers : WriteRUnlock(p)
    \/ \E s \in Closers : ShutdownCall(s)
    \/ \E s \in Closers : ShutdownOnceWait(s)
    \/ \E s \in Closers : ShutdownLock(s)
    \/ \E s \in Closers : ShutdownSetClosed(s)
    \/ \E s \in Closers : ShutdownUnlock(s)
    \/ \E s \in Closers : ShutdownCloseCh(s)
    \/ \E s \in Closers : ShutdownCloseDone(s)
    \/ \E w \in Workers : WorkerRecv(w)
    \/ \E w \in Workers : WorkerRecvClosed(w)
    \/ \E w \in Workers, ok \in BOOLEAN : FlushReturn(w, ok)
    \/ \E w \in Workers : TickerFire(w)

Spec == Init /\ [][Next]_vars

\* ------------------------------------------------------- derived quantities
\* Records passed to some flush call so far.
Flushed == UNION {Range(flushes[i].recs) : i \in 1..Len(flushes)}
\* Records sitting in some worker's private batch.
InBatches == UNION {Range(batch[w]) : w \in Workers}
\* Records anywhere between the queue and the sink.
InPipeline == Range(ch.buf) \cup InBatches \cup Flushed
AllExited == \A w \in Workers : wpc[w] \in {"exited", "absent"}
SomeReturned == \E s \in Closers : spc[s] = "returned"

\* ------------------------------------------------------------------ claims
\* C1: the queue never holds more than BufferSize records, and a record whose
\* Write found the queue full is in no queue, batch or flush afterwards.
C1_QueueBounded ==
    /\ Len(ch.buf) <= ch.cap
    /\ dropped \cap InPipeline = {}

\* C1 witness: a record was dropped on a full queue and the pipeline went on
\* to flush and shut down without it.
C1_Witness ==
    /\ dropped # {}
    /\ flushes # <<>>
    /\ done

\* C2: when Done is closed or a Shutdown call has returned, the queue is
\* closed and empty, every worker has exited, and every record accepted into
\* the queue has been passed to a flush call.
C2_ShutdownDrains ==
    (done \/ SomeReturned) =>
        /\ ch.closed
        /\ done
        /\ AllExited
        /\ ch.buf = <<>>
        /\ Range(accepted) \subseteq Flushed

\* C2 witness: Shutdown returned after two workers exited, one of them
\* through a final flush of its remaining batch.
C2_Witness ==
    /\ done
    /\ SomeReturned
    /\ \A w \in Workers : wpc[w] = "exited"
    /\ \E i \in 1..Len(flushes) : flushes[i].why = "close"

\* Worker goroutines New started.
NumWorkers == Cardinality({w \in Workers : wpc[w] # "absent"})
\* Records workers have received from the queue so far.
Received == Len(accepted) - Len(ch.buf)
FlushSizes == [i \in 1..Len(flushes) |-> Len(flushes[i].recs)]
\* Records of the batches the sink rejected.
Failed == UNION {Range(flushes[i].recs) : i \in {j \in 1..Len(flushes) : flushes[j].res = "err"}}

\* C4 as stated: once batchSize records have been received from the queue with
\* no timer or final flush in between, the first flush carries exactly
\* batchSize records, however many workers share the queue.
C4_Original ==
    (Received >= batchSize /\ \A i \in 1..Len(flushes) : flushes[i].why = "size") =>
        (flushes # <<>> /\ Len(flushes[1].recs) = batchSize)

\* C4 amended: the trigger is per worker. A worker waiting in select holds
\* fewer than batchSize records, every size-triggered flush carries exactly
\* batchSize records, and with a single worker the statement about the shared
\* queue holds as stated.
C4_PerWorkerTrigger ==
    /\ \A w \in Workers : wpc[w] = "select" => Len(batch[w]) < batchSize
    /\ \A i \in 1..Len(flushes) : flushes[i].why = "size" => Len(flushes[i].recs) = batchSize
    /\ NumWorkers = 1 => C4_Original

\* C4 witness: a worker received batchSize >= 2 records one by one and is
\* inside the flush of exactly these records.
C4_Witness ==
    /\ batchSize >= 2
    /\ \E w \in Workers :
          /\ wpc[w] = "flush"
          /\ why[w] = "size"
          /\ Len(batch[w]) = batchSize

\* C6: however many Shutdown calls are made, the queue is closed at most once,
\* the workers are waited for at most once, Done is closed at most once,
\* nothing panics, and a call that has returned found all three done once.
C6_ShutdownIdempotent ==
    /\ closes.ch <= 1
    /\ closes.drains <= 1
    /\ closes.done <= 1
    /\ ~panicked
    /\ Cardinality({s \in Closers : spc[s] \notin {"idle", "onceWait", "returned"}}) <= 1
    /\ SomeReturned => closes = [ch |-> 1, done |-> 1, drains |-> 1]

\* C6 witness: both callers have returned.
C6_Witness ==
    /\ \A s \in Closers : spc[s] = "returned"
    /\ closes.ch = 1

\* C7: a Write that finds the pipeline closed leaves its record out of the
\* queue, the batches and the sink and does not panic; and once closed is set
\* the queue gains no record.
C7_ClosedDrops ==
    /\ [](late \cap InPipeline = {} /\ ~panicked)
    /\ [][closed => (accepted' = accepted /\ Len(ch'.buf) <= Len(ch.buf))]_vars

\* C7 witness: a Write issued after closure has returned and Shutdown is over.
C7_Witness ==
    /\ late # {}
    /\ \A p \in Producers : ppc[p] = "idle"
    /\ done
    /\ flushes # <<>>

\* C8: a rejected batch is gone: its records are not persisted, not back in
\* the queue, not in a batch of a worker that is receiving again, and in no
\* other flush; no record is ever passed to two flush calls.
C8_FailedBatchDiscarded ==
    /\ Failed \cap db = {}
    /\ Failed \cap Range(ch.buf) = {}
    /\ \A w \in Workers : wpc[w] = "select" => Range(batch[w]) \cap Flushed = {}
    /\ Len(Flatten([i \in 1..Len(flushes) |-> flushes[i].recs])) = Cardinality(Flushed)

\* C8 witness: a worker whose flush was rejected went on to flush a later
\* batch, which the sink accepted.
C8_Witness ==
    \E i, j \in 1..Len(flushes) :
        /\ i < j
        /\ flushes[i].worker = flushes[j].worker
        /\ flushes[i].res = "err"
        /\ flushes[j].res = "ok"

\* ------------------------------------------------- the end-to-end scenario
\* batchSize = 100, bufferSize = 1000, workers = 1, 250 records, scaled by
\* E2EScale / 50: one caller enqueues every record and then calls Shutdown.
E2EOptions == [BufferSize |-> 20 * E2EScale, BatchSize |-> 2 * E2EScale, Workers |-> 1]
E2ERecords == 5 * E2EScale

InitE2E == InitWith(E2EOptions, E2ERecords)

\* Shutdown is called after the last Write has returned.
E2EShutdownCall(s) ==
    /\ nextId > quota
    /\ \A p \in Producers : ppc[p] = "idle"
    /\ ShutdownCall(s)

NextE2E ==
    \/ \E p \in {"h1"} : WriteCall(p)
    \/ \E p \in {"h1"} : WriteRLock(p)
    \/ \E p \in {"h1"} : WriteCheckClosed(p)
    \/ \E p \in {"h1"} : WriteSend(p)
    \/ \E p \in {"h1"} : WriteRUnlock(p)
    \/ \E s \in {"manual"} : E2EShutdownCall(s)
    \/ \E s \in {"manual"} : ShutdownLock(s)
    \/ \E s \in {"manual"} : ShutdownSetClosed(s)
    \/ \E s \in {"manual"} : ShutdownUnlock(s)
    \/ \E s \in {"manual"} : ShutdownCloseCh(s)
    \/ \E s \in {"manual"} : ShutdownCloseDone(s)
    \/ \E w \in Workers : WorkerRecv(w)
    \/ \E w \in Workers : WorkerRecvClosed(w)
    \/ \E w \in Workers, ok \in BOOLEAN : FlushReturn(w, ok)
    \/ \E w \in Workers : TickerFire(w)

SpecE2E == InitE2E /\ [][NextE2E]_vars

\* Flush sizes batchSize, batchSize, batchSize / 2 (100, 100, 50).
E2EExpected == [i \in 1..3 |-> IF i <= 2 THEN batchSize ELSE batchSize \div 2]
FlushedInOrder == Flatten([i \in 1..Len(flushes) |-> flushes[i].recs])

\* C3 as stated: after Shutdown the sink has received exactly three flush
\* calls, of sizes 100, 100, 50 in that order, whenever the timer fired.
C3_Original == done => FlushSizes = E2EExpected

\* C3 amended: after Shutdown the sink has received all 250 records, in
\* enqueue order, in flushes of 1..100 records; the flushes are exactly
\* 100, 100, 50 when no flush was triggered by the timer.
C3_EndToEnd ==
    done =>
        /\ FlushedInOrder = [i \in 1..quota |-> i]
        /\ \A i \in 1..Len(flushes) : FlushSizes[i] \in 1..batchSize
        /\ (\A i \in 1..Len(flushes) : flushes[i].why # "tick") => FlushSizes = E2EExpected

\* C3 witness: the scenario ended with the three flushes 100, 100, 50.
C3_Witness ==
    /\ done
    /\ FlushSizes = E2EExpected
    /\ Len(accepted) = E2ERecords

\* ------------------------------------------------------- the timed pipeline
\* Time in clock units; each worker's ticker fires every TickPeriod units and
\* leaves its tick in ticker.C (capacity 1, a tick finding it full is lost).
\* A worker waiting in select takes a ready case without letting time pass;
\* a sink write, a Write and a Shutdown take as long as they take.
SelectReady(w) ==
    /\ wpc[w] = "select"
    /\ (ch.buf # <<>> \/ ch.closed \/ ticker[w])

TimePass ==
    /\ \A w \in Workers : ~SelectReady(w)
    /\ \E w \in Workers : wpc[w] \in {"select", "flush"}
    /\ untilTick' = [w \in Workers |->
                       IF wpc[w] \in {"select", "flush"}
                         THEN IF untilTick[w] = 1 THEN TickPeriod ELSE untilTick[w] - 1
                         ELSE untilTick[w]]
    /\ ticker' = [w \in Workers |->
                    ticker[w] \/ (wpc[w] \in {"select", "flush"} /\ untilTick[w] = 1)]
    /\ age' = [w \in Workers |->
                 IF wpc[w] = "select" /\ batch[w] # <<>>
                   THEN Min(age[w] + 1, TickPeriod + 1)
                   ELSE age[w]]
    /\ UNCHANGED <<writerVars, producerVars, spc, workerVars, sinkVars, historyVars>>
    /\ UNCHANGED readVars

\* One producer and one Shutdown caller: the timing is the workers'.
NextTimed ==
    \/ \E p \in {"h1"} : WriteCall(p)
    \/ \E p \in {"h1"} : WriteRLock(p)
    \/ \E p \in {"h1"} : WriteCheckClosed(p)
    \/ \E p \in {"h1"} : WriteSend(p)
    \/ \E p \in {"h1"} : WriteRUnlock(p)
    \/ \E s \in {"hook"} : ShutdownCall(s)
    \/ \E s \in {"hook"} : ShutdownLock(s)
    \/ \E s \in {"hook"} : ShutdownSetClosed(s)
    \/ \E s \in {"hook"} : ShutdownUnlock(s)
    \/ \E s \in {"hook"} : ShutdownCloseCh(s)
    \/ \E s \in {"hook"} : ShutdownCloseDone(s)
    \/ \E w \in Workers : WorkerRecv(w)
    \/ \E w \in Workers : WorkerRecvClosed(w)
    \/ \E w \in Workers : WorkerTick(w)
    \/ \E w \in Workers, ok \in BOOLEAN : FlushReturn(w, ok)
    \/ TimePass

SpecTimed == Init /\ [][NextTimed]_vars

\* C5: a worker waiting in select never holds a non-empty batch for more than
\* one flush interval, and no flush call carries an empty batch.
C5_TimeTrigger ==
    /\ \A w \in Workers : (wpc[w] = "select" /\ batch[w] # <<>>) => age[w] <= TickPeriod
    /\ \A i \in 1..Len(flushes) : flushes[i].recs # <<>>

\* C5 witness: with Shutdown not called and nothing left to receive, the timer
\* flushed a batch of fewer than batchSize records, which the worker cleared.
C5_Witness ==
    /\ once = "fresh"
    /\ \E i \in 1..Len(flushes) :
          /\ flushes[i].why = "tick"
          /\ Len(flushes[i].recs) < batchSize
          /\ flushes[i].res = "ok"
          /\ wpc[flushes[i].worker] = "select"
          /\ batch[flushes[i].worker] = <<>>

\* ------------------------------------------------------------- scheduling
\* The steps of one goroutine; a goroutine that can run is eventually run.
ProducerStep(p) ==
    WriteRLock(p) \/ WriteCheckClosed(p) \/ WriteSend(p) \/ WriteRUnlock(p)
\* Shutdown's critical section on w.mu.
LockSection(s) == ShutdownSetClosed(s) \/ ShutdownUnlock(s)
CloserStep(s) ==
    \/ ShutdownOnceWait(s) \/ ShutdownLock(s) \/ ShutdownSetClosed(s)
    \/ ShutdownUnlock(s) \/ ShutdownCloseCh(s) \/ ShutdownCloseDone(s)
\* A worker's receive from w.ch and the return of its sink write.
WorkerStep(w) ==
    WorkerRecv(w) \/ WorkerRecvClosed(w) \/ \E ok \in BOOLEAN : FlushReturn(w, ok)

\* One worker, one Shutdown caller and one Write more than elsewhere: enough
\* for a Write to meet a full queue while the worker is inside a sink write.
InitWriteFair ==
    \E opts \in {o \in OptionsSet : o.Workers <= 1} : InitWith(opts, MaxRecords + 1)

NextWriteFair ==
    \/ \E p \in Producers : WriteCall(p)
    \/ \E p \in Producers : WriteRLock(p)
    \/ \E p \in Producers : WriteCheckClosed(p)
    \/ \E p \in Producers : WriteSend(p)
    \/ \E p \in Producers : WriteRUnlock(p)
    \/ \E s \in {"hook"} : ShutdownCall(s)
    \/ \E s \in {"hook"} : ShutdownLock(s)
    \/ \E s \in {"hook"} : ShutdownSetClosed(s)
    \/ \E s \in {"hook"} : ShutdownUnlock(s)
    \/ \E s \in {"hook"} : ShutdownCloseCh(s)
    \/ \E s \in {"hook"} : ShutdownCloseDone(s)
    \/ \E w \in Workers : WorkerRecv(w)
    \/ \E w \in Workers : WorkerRecvClosed(w)
    \/ \E w \in Workers, ok \in BOOLEAN : FlushReturn(w, ok)
    \/ \E w \in Workers : TickerFire(w)

\* Producers and Shutdown's critical section are scheduled fairly; workers,
\* sink writes and the rest of Shutdown may stall for ever.
SpecWriteFair ==
    /\ InitWriteFair
    /\ [][NextWriteFair]_vars
    /\ \A p \in Producers : WF_vars(ProducerStep(p))
    /\ \A s \in Closers : WF_vars(LockSection(s))

\* One producer, both Shutdown callers, one or two workers.
NextLive ==
    \/ \E p \in {"h1"} : WriteCall(p)
    \/ \E p \in {"h1"} : WriteRLock(p)
    \/ \E p \in {"h1"} : WriteCheckClosed(p)
    \/ \E p \in {"h1"} : WriteSend(p)
    \/ \E p \in {"h1"} : WriteRUnlock(p)
    \/ \E s \in Closers : ShutdownCall(s)
    \/ \E s \in Closers : ShutdownOnceWait(s)
    \/ \E s \in Closers : ShutdownLock(s)
    \/ \E s \in Closers : ShutdownSetClosed(s)
    \/ \E s \in Closers : ShutdownUnlock(s)
    \/ \E s \in Closers : ShutdownCloseCh(s)
    \/ \E s \in Closers : ShutdownCloseDone(s)
    \/ \E w \in Workers : WorkerRecv(w)
    \/ \E w \in Workers : WorkerRecvClosed(w)
    \/ \E w \in Workers, ok \in BOOLEAN : FlushReturn(w, ok)
    \/ \E w \in Workers : TickerFire(w)

\* Every goroutine is scheduled fairly and every sink write returns.
SpecLive ==
    /\ Init
    /\ [][NextLive]_vars
    /\ \A p \in {"h1"} : WF_vars(ProducerStep(p))
    /\ \A s \in Closers : WF_vars(CloserStep(s))
    /\ \A w \in Workers : WF_vars(WorkerStep(w))

\* C9: a Write that has been called returns, whatever the workers, the sink
\* and a Shutdown waiting for the workers do or fail to do.
C9_WriteNeverWaits ==
    \A p \in Producers : (ppc[p] # "idle") ~> (ppc[p] = "idle")

\* C9 witness: a Write is about to send while the queue is full, every worker
\* is inside a sink write and a Shutdown is waiting for the lock.
C9_Witness ==
    /\ \E p \in Producers : ppc[p] = "send"
    /\ Len(ch.buf) = ch.cap
    /\ \A w \in Workers : wpc[w] \in {"flush", "absent"}
    /\ \E w \in Workers : wpc[w] = "flush"
    /\ \E s \in Closers : spc[s] = "lockWait"

\* C10: when every sink write returns, a Shutdown that was called returns and
\* Done is closed; while a worker is inside a sink write, Done is not closed
\* and no Shutdown call has returned.
C10_ShutdownWaits ==
    /\ \A s \in Closers : (spc[s] # "idle") ~> (spc[s] = "returned" /\ done)
    /\ []((\E w \in Workers : wpc[w] = "flush") => (~done /\ ~SomeReturned))

\* C10 witness: one Shutdown call waits in wg.Wait, the other waits for it,
\* and a worker is inside the sink write of its final flush.
C10_Witness ==
    /\ \E s \in Closers : spc[s] = "wgWait"
    /\ \E s \in Closers : spc[s] = "onceWait"
    /\ \E w \in Workers : wpc[w] = "flush" /\ why[w] = "close"

\* C11 as stated: every dropped enqueue, whether dropped because the queue was
\* full or because the pipeline was closed, has a logged warning.
C11_Original == (dropped \cup late) \subseteq logged

\* C11 amended: an enqueue dropped because the queue was full has a logged
\* warning; an enqueue dropped because the pipeline was closed has none, and
\* nothing else is logged by Write.
C11_FullDropLogged ==
    /\ dropped \subseteq logged
    /\ late \cap logged = {}
    /\ logged \subseteq dropped

\* C11 witness: one Write was dropped on a full queue and another on a closed
\* pipeline, and both have returned.
C11_Witness ==
    /\ dropped # {}
    /\ late # {}
    /\ \A p \in Producers : ppc[p] = "idle"

\* ================================================================ read path
\* services.RequestService: Analyze and FindAll over monitoring_request_logs.
\* Go strings are strings; times are whole seconds since 2024-01-01T00:00:00Z.

IntBits == 16              \* width of Go's int in the model (64 in the build)

\* ------------------------------------------------------------------ strconv
At(s, i) == SubSeq(s, i, i)
DigitChar(d) == At("0123456789", d + 1)
Digits == {DigitChar(d) : d \in 0..9}
DigitVal(c) == CHOOSE d \in 0..9 : DigitChar(d) = c
IsNumber(s) == Len(s) > 0 /\ \A i \in 1..Len(s) : At(s, i) \in Digits

MaxInt == 2 ^ (IntBits - 1) - 1
MinInt == -(2 ^ (IntBits - 1))

\* Two's-complement result of an int operation whose exact value is x.
Wrap(x) == ((x - MinInt) % (2 ^ IntBits)) + MinInt

\* Value of a string of digits, saturating just above cap.
RECURSIVE DecValue(_, _, _)
DecValue(s, acc, cap) ==
    IF s = "" THEN acc
    ELSE DecValue(SubSeq(s, 2, Len(s)), Min(acc * 10 + DigitVal(At(s, 1)), cap + 1), cap)

\* strconv.Atoi: an optional sign and decimal digits that fit an int.
Atoi(s) ==
    LET signed == Len(s) > 0 /\ At(s, 1) \in {"+", "-"}
        neg == Len(s) > 0 /\ At(s, 1) = "-"
        body == IF signed THEN SubSeq(s, 2, Len(s)) ELSE s
        n == DecValue(body, 0, MaxInt + 1)
    IN  IF ~IsNumber(body) THEN [err |-> TRUE, v |-> 0]
        ELSE IF neg THEN [err |-> n > MaxInt + 1, v |-> IF n > MaxInt + 1 THEN 0 ELSE -n]
        ELSE [err |-> n > MaxInt, v |-> IF n > MaxInt THEN 0 ELSE n]

\* strconv.Itoa.
RECURSIVE Itoa(_)
Itoa(n) ==
    IF n < 0 THEN "-" \o Itoa(-n)
    ELSE IF n < 10 THEN DigitChar(n)
    ELSE Itoa(n \div 10) \o DigitChar(n % 10)

\* --------------------------------------------------------------------- time
Second == 1
Minute == 60 * Second
Hour == 60 * Minute
Day == 24 * Hour
EpochYear == 2024          \* year of the model's time zero

IsLeap(y) == (y % 4 = 0 /\ y % 100 # 0) \/ y % 400 = 0
DaysIn(mo, y) ==
    IF mo = 2 THEN (IF IsLeap(y) THEN 29 ELSE 28)
    ELSE IF mo \in {4, 6, 9, 11} THEN 30 ELSE 31
LeapsBefore(y) == (y - 1) \div 4 - (y - 1) \div 100 + (y - 1) \div 400
RECURSIVE DaysBeforeMonth(_, _)
DaysBeforeMonth(mo, y) == IF mo = 1 THEN 0 ELSE DaysBeforeMonth(mo - 1, y) + DaysIn(mo - 1, y)

\* time.Date(y, mo, d, h, mi, s, 0, UTC) as seconds since the model's zero.
Date(y, mo, d, h, mi, s) ==
    ((365 * (y - EpochYear) + LeapsBefore(y) - LeapsBefore(EpochYear)
        + DaysBeforeMonth(mo, y) + (d - 1)) * Day) + h * Hour + mi * Minute + s * Second

\* time.Parse(time.RFC3339, s) for the forms YYYY-MM-DDTHH:MM:SSZ and
\* YYYY-MM-DDTHH:MM:SS+hh:mm / -hh:mm; anything else is an error.
ParseRFC3339(s) ==
    LET num(i, j) == DecValue(SubSeq(s, i, j), 0, 9999)
        digitsAt(S) == \A i \in S : At(s, i) \in Digits
        shape ==
            /\ Len(s) \in {20, 25}
            /\ digitsAt({1, 2, 3, 4, 6, 7, 9, 10, 12, 13, 15, 16, 18, 19})
            /\ At(s, 5) = "-" /\ At(s, 8) = "-" /\ At(s, 11) = "T"
            /\ At(s, 14) = ":" /\ At(s, 17) = ":"
            /\ IF Len(s) = 20 THEN At(s, 20) = "Z"
               ELSE /\ At(s, 20) \in {"+", "-"}
                    /\ digitsAt({21, 22, 24, 25})
                    /\ At(s, 23) = ":"
        inRange ==
            /\ num(6, 7) \in 1..12
            /\ num(9, 10) \in 1..DaysIn(num(6, 7), num(1, 4))
            /\ num(12, 13) <= 23 /\ num(15, 16) <= 59 /\ num(18, 19) <= 59
            /\ Len(s) = 25 => (num(21, 22) <= 23 /\ num(24, 25) <= 59)
        offset ==
            IF Len(s) = 20 THEN 0
            ELSE (IF At(s, 20) = "-" THEN -1 ELSE 1) * (num(21, 22) * Hour + num(24, 25) * Minute)
    IN  IF shape /\ inRange
          THEN [err |-> FALSE,
                t |-> Date(num(1, 4), num(6, 7), num(9, 10), num(12, 13), num(15, 16), num(18, 19))
                        - offset]
          ELSE [err |-> TRUE, t |-> 0]

\* --------------------------------------------------- monitoring_request_logs
MaxRows == 3               \* rows in the table when the read operation starts

T0 == Date(2024, 3, 1, 0, 0, 0)

RequestLog(id, at, dur, ok, status, method, url, path) ==
    [ID |-> id, CreatedAt |-> at, Duration |-> dur, Success |-> ok,
     Response |-> [statusCode |-> status], Method |-> method, URL |-> url, Path |-> path]

\* The rows a table is drawn from: timestamps on and around the boundaries of
\* the sampled ranges, durations on and around the histogram boundaries.
SampleRows ==
    {RequestLog(1, T0, 0, TRUE, 200, "GET", "/users?page=2", "/users"),
     RequestLog(2, T0 + 30 * Second, 19, TRUE, 200, "GET", "/users?x=1", ""),
     RequestLog(3, T0 + Minute, 20, FALSE, 500, "POST", "/orders", "/orders"),
     RequestLog(4, T0 + 90 * Second, 1999, TRUE, 200, "POST", "/orders?id=7", ""),
     RequestLog(5, T0 + Hour, 2000, TRUE, 200, "GET", "/users", "/users"),
     RequestLog(6, T0 + 2 * Hour + 5 * Second, 150, FALSE, 404, "GET", "/users", "/users"),
     RequestLog(7, T0 + Day, 40, TRUE, 200, "POST", "/orders", "/orders"),
     RequestLog(8, T0 - Hour, 2500, FALSE, 500, "GET", "/health", "/health")}

Tables == {S \in SUBSET SampleRows : Cardinality(S) <= MaxRows}

\* time.Now() when the operation runs.
Nows == {T0 + 12 * Hour}

BaseFilter(page, perPage, fromDate, toDate) ==
    [Page |-> page, PerPage |-> perPage, SortKey |-> "", SortDir |-> "",
     FromDate |-> fromDate, ToDate |-> toDate]

\* fromDate / toDate query parameters of the sampled calls.
DateArgs ==
    {<<"", "">>,
     <<"2024-03-01T00:00:00Z", "">>,
     <<"2024-03-01T00:00:00Z", "2024-03-01T00:00:00Z">>,
     <<"2024-03-01T00:00:00Z", "2024-03-01T00:00:30Z">>,
     <<"2024-03-01T00:00:00Z", "2024-03-01T00:01:30Z">>,
     <<"2024-03-01T00:00:00Z", "2024-03-01T01:00:00Z">>,
     <<"2024-03-01T00:00:00Z", "2024-03-01T01:00:01Z">>,
     <<"2024-03-01T00:00:00Z", "2024-03-02T00:00:00Z">>,
     <<"2024-03-01T00:00:00Z", "2024-03-02T00:00:01Z">>,
     <<"2024-03-01T00:00:00Z", "2024-04-01T00:00:00Z">>,
     <<"2024-03-01T00:00:00Z", "2024-04-01T00:00:01Z">>,
     <<"2024-03-01T02:00:00+02:00", "2024-03-01T01:00:00Z">>,
     <<"2024-03-01T01:00:00Z", "2024-03-01T00:00:00Z">>,
     <<"", "2024-03-01T01:00:00Z">>,
     <<"yesterday", "2024-03-02T00:00:00Z">>,
     <<"2024-03-01T00:00:00Z", "2024-03-01">>,
     <<"2024-02-30T00:00:00Z", "tomorrow">>}

\* page / per_page query parameters of the sampled calls.
PageArgs == {"", "0", "1", "2", "-1", "x", Itoa(MaxInt \div 20 + 2), Itoa(MaxInt), Itoa(MaxInt + 1)}
PerPageArgs == {"", "0", "1", "20", "50", "51", "1000", "-5", "ten", Itoa(MaxInt), Itoa(MaxInt + 1)}

AnalyzeFilters == {BaseFilter("", "", d[1], d[2]) : d \in DateArgs}

\* dto.RequestFilter: the base fields and the request predicates; a nil
\* pointer is <<>>, a set one is <<value>>.
RequestFilter(base, url, method, exception, success, durationGt, durationLt, statusCode) ==
    [Page |-> base.Page, PerPage |-> base.PerPage, SortKey |-> base.SortKey,
     SortDir |-> base.SortDir, FromDate |-> base.FromDate, ToDate |-> base.ToDate,
     URL |-> url, Method |-> method, Exception |-> exception, Success |-> success,
     DurationGt |-> durationGt, DurationLt |-> durationLt, StatusCode |-> statusCode]

ListFilters ==
    {RequestFilter(BaseFilter(pg, pp, d[1], d[2]), "", "", <<>>, <<>>, <<>>, <<>>, <<>>) :
        pg \in PageArgs, pp \in PerPageArgs,
        d \in {<<"", "">>, <<"2024-03-01T00:00:00Z", "2024-03-02T00:00:00Z">>}}

\* ------------------------------------------------------------ shared helpers
\* Fault: one unusable bound discards the other bound too.
parseDateRange_Both(f, n) ==
    LET pf == ParseRFC3339(f.FromDate)
        pt == ParseRFC3339(f.ToDate)
    IN  IF pf.err \/ pt.err
          THEN [from |-> n - 24 * Hour, to |-> n]
          ELSE [from |-> pf.t, to |-> pt.t]

\* parseDateRange with time.Now() = n: each bound falls back on its own.
parseDateRange(f, n) ==
    LET pf == ParseRFC3339(f.FromDate)
        pt == ParseRFC3339(f.ToDate)
    IN  [from |-> IF f.FromDate # "" /\ ~pf.err THEN pf.t ELSE n - 24 * Hour,
         to |-> IF f.ToDate # "" /\ ~pt.err THEN pt.t ELSE n]

DefaultPerPage == 20
MaxPerPage == 50

\* pagination: perPage*(page) - perPage in int arithmetic.
pagination(f) ==
    LET pp == Atoi(f.PerPage)
        asked == IF f.PerPage # "" /\ ~pp.err /\ pp.v > 0 THEN pp.v ELSE DefaultPerPage
        perPage == IF asked > MaxPerPage THEN MaxPerPage ELSE asked
        pg == Atoi(f.Page)
        page == IF f.Page # "" /\ ~pg.err /\ pg.v > 0 THEN pg.v ELSE 1
    IN  [perPage |-> perPage, page |-> page, skip |-> Wrap(Wrap(perPage * page) - perPage)]

\* Fault: a range of exactly one threshold gets the larger step.
StepFor_Strict(diff) ==
    IF diff < Hour THEN Minute
    ELSE IF diff < 24 * Hour THEN Hour
    ELSE IF diff < 31 * 24 * Hour THEN 24 * Hour
    ELSE 30 * 24 * Hour

\* The step of the time series, from the length of the range.
StepFor(diff) ==
    IF diff <= Hour THEN Minute
    ELSE IF diff <= 24 * Hour THEN Hour
    ELSE IF diff <= 31 * 24 * Hour THEN 24 * Hour
    ELSE 30 * 24 * Hour

\* for t := from; t.Before(to); t = t.Add(step)
RECURSIVE Ticks(_, _, _)
Ticks(t, to, step) == IF t < to THEN <<t>> \o Ticks(t + step, to, step) ELSE <<>>

\* Fault: a list of fewer than two boundaries is returned as it is.
buildTimeRange_NoPad(from, to) == Ticks(from, to, StepFor(to - from))

buildTimeRange(from, to) ==
    LET r == Ticks(from, to, StepFor(to - from))
    IN  IF Len(r) = 0 THEN <<from, to>>
        ELSE IF Len(r) = 1 THEN Append(r, to)
        ELSE r

\* --------------------------------------------------- RequestService.Analyze
RECURSIVE SumSeq(_)
SumSeq(s) == IF s = <<>> THEN 0 ELSE Head(s) + SumSeq(Tail(s))

MinOf(s) == CHOOSE x \in Range(s) : \A y \in Range(s) : x <= y
MaxOf(s) == CHOOSE x \in Range(s) : \A y \in Range(s) : x >= y

\* Every order in which a query without ORDER BY may return the rows S.
Orderings(S) ==
    {s \in [1..Cardinality(S) -> S] : \A i, j \in 1..Cardinality(S) : s[i] = s[j] => i = j}

\* Fault: BETWEEN read as an open range.
Between_Open(t, from, to) == t > from /\ t < to

\* created_at BETWEEN ? AND ?
Between(t, from, to) == t >= from /\ t <= to

InRange(from, to) == {r \in table : Between(r.CreatedAt, from, to)}

\* response->>'statusCode' = '500'
IsException(r) == Itoa(r.Response.statusCode) = "500"

boundaries == <<0, 20, 40, 80, 130, 150, 180, 200, 500, 1000, 2000>>

\* Fault: the upper boundary belongs to the bucket.
InBucket_Closed(d, lo, hi) == d >= lo /\ d <= hi

\* r.Duration >= lo && r.Duration < hi
InBucket(d, lo, hi) == d >= lo /\ d < hi

DurationBucketItem(r) ==
    [Duration |-> r.Duration, URL |-> IF r.Path = "" THEN r.URL ELSE r.Path,
     Method |-> r.Method, Success |-> r.Success]

\* The duration buckets loop: one bucket per pair of boundaries, empty ones left out.
DurationBuckets(requests) ==
    LET members(i) ==
            SelectSeq(requests, LAMBDA r : InBucket(r.Duration, boundaries[i], boundaries[i + 1]))
        bucket(i) ==
            [ID |-> boundaries[i], Count |-> Len(members(i)),
             Data |-> [k \in 1..Len(members(i)) |-> DurationBucketItem(members(i)[k])]]
    IN  SelectSeq([i \in 1..(Len(boundaries) - 1) |-> bucket(i)], LAMBDA b : Len(b.Data) > 0)

\* strings.SplitN(url, "?", 2)[0]
CleanURL(url) ==
    LET marks == {i \in 1..Len(url) : At(url, i) = "?"}
    IN  IF marks = {} THEN url
        ELSE SubSeq(url, 1, (CHOOSE i \in marks : \A j \in marks : i <= j) - 1)

endpointKey(item) == [url |-> CleanURL(item.URL), method |-> item.Method]

\* Fault: failed requests enter the statistics too.
Counted_All(item) == TRUE

\* if item.Success { epMap[k] = append(epMap[k], item.Duration) }
Counted(item) == item.Success

\* The per-endpoint loop; the result is in map order, that is in no order.
\* Average is the quotient sum / count, kept as the pair of its terms.
DurationURLs(buckets) ==
    LET items == Flatten([i \in 1..Len(buckets) |-> buckets[i].Data])
        counted == SelectSeq(items, Counted)
        keys == {endpointKey(counted[i]) : i \in 1..Len(counted)}
        of(k) == SelectSeq(counted, LAMBDA it : endpointKey(it) = k)
        durations(k) == [i \in 1..Len(of(k)) |-> of(k)[i].Duration]
    IN  {[Method |-> k.method, URL |-> k.url,
          Min |-> MinOf(durations(k)), Max |-> MaxOf(durations(k)),
          Average |-> [sum |-> SumSeq(durations(k)), count |-> Len(durations(k))],
          Count |-> Len(durations(k))] : k \in keys}

\* ranges := buildTimeRange(from, to); if len(ranges) > 0 { append(ranges, to) }
TimeRanges(from, to) ==
    LET r == buildTimeRange(from, to)
    IN  IF Len(r) > 0 THEN Append(r, to) ELSE r

\* Fault: the start of an interval belongs to it.
InInterval_FromStart(t, start, end) == t >= start /\ t < end

\* r.CreatedAt.After(start) && r.CreatedAt.Before(end)
InInterval(t, start, end) == t > start /\ t < end

TimeBucketItem(r) ==
    [ID |-> r.ID, URL |-> r.URL, Method |-> r.Method, Success |-> r.Success,
     CreatedAt |-> r.CreatedAt]

\* The time-series loop: one bucket per pair of boundaries, empty ones left out.
TimeBuckets(requests, ranges) ==
    LET members(i) ==
            SelectSeq(requests, LAMBDA r : InInterval(r.CreatedAt, ranges[i], ranges[i + 1]))
        bucket(i) ==
            [ID |-> ranges[i], Count |-> Len(members(i)),
             Data |-> [k \in 1..Len(members(i)) |-> TimeBucketItem(members(i)[k])]]
    IN  SelectSeq([i \in 1..(Len(ranges) - 1) |-> bucket(i)], LAMBDA b : Len(b.Data) > 0)

\* Analyze is called: from, to := parseDateRange(f).
AnalyzeCall(f) ==
    /\ qpc = "idle"
    /\ qpc' = "total"
    /\ q' = [op |-> "analyze", f |-> f, range |-> parseDateRange(f, now),
             total |-> 0, success |-> 0, exceptions |-> 0, requests |-> <<>>,
             failed |-> {}, err |-> FALSE]
    /\ UNCHANGED <<table, jobs, now, pipelineVars>>

\* One of the three Count queries: the count on success; on a sink error the
\* variable keeps its zero and the error is not looked at.
AnalyzeCount(at, next, field, rows, ok) ==
    /\ qpc = at
    /\ qpc' = next
    /\ q' = IF ok THEN [q EXCEPT ![field] = Cardinality(rows)]
            ELSE [q EXCEPT !.failed = @ \cup {field}]
    /\ UNCHANGED <<table, jobs, now, pipelineVars>>

\* s.DB.Model(...).Where(baseWhere, from, to).Count(&total)
AnalyzeCountTotal(ok) ==
    AnalyzeCount("total", "success", "total", InRange(q.range.from, q.range.to), ok)

\* ... Where(baseWhere+" AND success = ?", from, to, true).Count(&success)
AnalyzeCountSuccess(ok) ==
    AnalyzeCount("success", "exceptions", "success",
                 {r \in InRange(q.range.from, q.range.to) : r.Success}, ok)

\* ... Where(baseWhere+" AND response->>'statusCode' = '500'", from, to).Count(&exceptions)
AnalyzeCountExceptions(ok) ==
    AnalyzeCount("exceptions", "load", "exceptions",
                 {r \in InRange(q.range.from, q.range.to) : IsException(r)}, ok)

\* s.DB.Where(baseWhere, from, to).Find(&requests): the rows in the order the
\* sink returns them; on a sink error requests stays empty.
AnalyzeFind(ok) ==
    /\ qpc = "load"
    /\ qpc' = "aggregate"
    /\ IF ok
         THEN \E rows \in Orderings(InRange(q.range.from, q.range.to)) :
                  q' = [q EXCEPT !.requests = rows]
         ELSE q' = [q EXCEPT !.failed = @ \cup {"requests"}]
    /\ UNCHANGED <<table, jobs, now, pipelineVars>>

\* The three in-memory loops and return &AnalyzeResult{...}, nil.
AnalyzeReturn ==
    /\ qpc = "aggregate"
    /\ qpc' = "returned"
    /\ LET buckets == DurationBuckets(q.requests)
           ranges == TimeRanges(q.range.from, q.range.to)
       IN  q' = [op |-> "analyze", f |-> q.f, failed |-> q.failed, err |-> FALSE,
                 requests |-> q.requests, ranges |-> ranges,
                 FromDate |-> q.range.from, ToDate |-> q.range.to,
                 Total |-> q.total, Success |-> q.success, Exceptions |-> q.exceptions,
                 Duration |-> buckets, DurationURLs |-> DurationURLs(buckets),
                 CreatedAt |-> TimeBuckets(q.requests, ranges),
                 DurationBoundaries |-> boundaries]
    /\ UNCHANGED <<table, jobs, now, pipelineVars>>

\* --------------------------------------------------- RequestService.FindAll
\* strings.Contains-like match of url LIKE '%' + sub + '%', for a sub without
\* LIKE wildcards.
Contains(s, sub) ==
    \E i \in 1..(Len(s) - Len(sub) + 1) : SubSeq(s, i, i + Len(sub) - 1) = sub

\* strings.Split(s, ","), as the set of its parts.
SplitComma(s) ==
    LET cuts == {0, Len(s) + 1} \cup {i \in 1..Len(s) : At(s, i) = ","}
    IN  {SubSeq(s, a + 1, b - 1) :
            <<a, b>> \in {c \in cuts \X cuts :
                            c[1] < c[2] /\ \A k \in cuts : ~(c[1] < k /\ k < c[2])}}

\* Fault: an explicit status code wins over the exception flag.
StatusWanted_CodeFirst(f) ==
    IF f.StatusCode # <<>> THEN <<Itoa(f.StatusCode[1])>>
    ELSE IF f.Exception = <<TRUE>> THEN <<"500">>
    ELSE <<>>

\* The status predicate: '500' under the exception flag, else the requested
\* status code, else none. A nil pointer is <<>>, a set one is <<value>>.
StatusWanted(f) ==
    IF f.Exception = <<TRUE>> THEN <<"500">>
    ELSE IF f.StatusCode # <<>> THEN <<Itoa(f.StatusCode[1])>>
    ELSE <<>>

\* The WHERE clause FindAll builds, as a test of one row.
Where(f, range, r) ==
    /\ Between(r.CreatedAt, range.from, range.to)
    /\ StatusWanted(f) # <<>> => Itoa(r.Response.statusCode) = StatusWanted(f)[1]
    /\ f.URL # "" => Contains(r.URL, f.URL)
    /\ f.Method # "" => r.Method \in SplitComma(f.Method)
    /\ f.Success # <<>> => r.Success = f.Success[1]
    /\ f.DurationGt # <<>> => r.Duration >= f.DurationGt[1]
    /\ f.DurationLt # <<>> => r.Duration <= f.DurationLt[1]

\* FindAll is called: the date range and the WHERE clause of q.
FindAllCall(f) ==
    /\ qpc = "idle"
    /\ qpc' = "count"
    /\ q' = [op |-> "findAll", f |-> f, range |-> parseDateRange(f, now),
             total |-> 0, failed |-> {}, err |-> FALSE]
    /\ UNCHANGED <<table, jobs, now, pipelineVars>>

\* q.Count(&total): a sink error stays in the statement q.
FindAllCount(ok) ==
    /\ qpc = "count"
    /\ qpc' = "find"
    /\ q' = IF ok THEN [q EXCEPT !.total = Cardinality({r \in table : Where(q.f, q.range, r)})]
            ELSE [q EXCEPT !.failed = @ \cup {"total"}]
    /\ UNCHANGED <<table, jobs, now, pipelineVars>>

\* Fault: the requested direction is honoured.
OrderDir_Requested(f) == IF f.SortDir = "ASC" THEN "ASC" ELSE "DESC"

\* Order(sortKey + " DESC"): the direction is the literal, f.SortDir is not read.
OrderDir(f) == "DESC"

\* sortKey := f.SortKey; if sortKey == "" { sortKey = "created_at" }, and
\* ORDER BY sortKey dir over the rows S.
Sorted(S, sortKey, dir) ==
    LET key == IF sortKey = "" THEN "created_at" ELSE sortKey
        Column(r) == CASE key = "created_at" -> r.CreatedAt
                       [] key = "duration" -> r.Duration
                       [] key = "id" -> r.ID
    IN  CHOOSE s \in Orderings(S) :
            \A i, j \in 1..Len(s) :
                i < j => IF dir = "DESC" THEN Column(s[i]) >= Column(s[j])
                         ELSE Column(s[i]) <= Column(s[j])

\* OFFSET skip LIMIT perPage; an offset that is not positive is no offset.
Page(rows, skip, perPage) ==
    LET first == IF skip > 0 THEN skip + 1 ELSE 1
    IN  SubSeq(rows, first, Min(Len(rows), first + perPage - 1))

\* q.Order(sortKey + " DESC").Offset(skip).Limit(perPage).Find(&rows), then
\* return nil, err or the ListResponse.
FindAllFind(ok) ==
    /\ qpc = "find"
    /\ qpc' = "returned"
    /\ LET p == pagination(q.f)
           failed == IF ok THEN q.failed ELSE q.failed \cup {"rows"}
       IN  q' = IF failed # {}
                  THEN [op |-> "findAll", f |-> q.f, failed |-> failed, err |-> TRUE]
                  ELSE [op |-> "findAll", f |-> q.f, failed |-> failed, err |-> FALSE,
                        range |-> q.range,
                        perPage |-> p.perPage, skip |-> p.skip, Total |-> q.total,
                        Data |-> Page(Sorted({r \in table : Where(q.f, q.range, r)},
                                             q.f.SortKey, OrderDir(q.f)),
                                      p.skip, p.perPage)]
    /\ UNCHANGED <<table, jobs, now, pipelineVars>>

\* --------------------------------------------------------- the read service
InitRead ==
    /\ WriterInit([BufferSize |-> 0, BatchSize |-> 0, Workers |-> 0], 0)
    /\ table \in Tables
    /\ jobs = {}
    /\ now \in Nows
    /\ qpc = "idle"
    /\ q = [op |-> "none"]

NextRead ==
    \/ \E f \in AnalyzeFilters : AnalyzeCall(f)
    \/ \E ok \in BOOLEAN : AnalyzeCountTotal(ok)
    \/ \E ok \in BOOLEAN : AnalyzeCountSuccess(ok)
    \/ \E ok \in BOOLEAN : AnalyzeCountExceptions(ok)
    \/ \E ok \in BOOLEAN : AnalyzeFind(ok)
    \/ AnalyzeReturn
    \/ \E f \in ListFilters : FindAllCall(f)
    \/ \E ok \in BOOLEAN : FindAllCount(ok)
    \/ \E ok \in BOOLEAN : FindAllFind(ok)

SpecRead == InitRead /\ [][NextRead]_vars

\* ------------------------------------------------------- read-path claims
Returned(op) == qpc = "returned" /\ q.op = op /\ ~q.err
Loaded == Range(q.requests)
Occurrences(s, x) == Cardinality({i \in 1..Len(s) : s[i] = x})

\* C12: with boundaries 0,20,40,80,130,150,180,200,500,1000,2000 every loaded
\* record with 0 <= duration < 2000 is a member of exactly one reported bucket,
\* the one whose lower boundary is the largest boundary not above its
\* duration, and of that bucket once; a record with duration >= 2000 is in no
\* bucket; no reported bucket is empty or holds anything but loaded records;
\* buckets are in ascending order of lower boundary; count = size of the list.
C12_DurationHistogram ==
    Returned("analyze") =>
        LET B == <<0, 20, 40, 80, 130, 150, 180, 200, 500, 1000, 2000>>
            H == q.Duration
            holders(r) == {i \in 1..Len(H) : Occurrences(H[i].Data, DurationBucketItem(r)) > 0}
            copies(r) == Cardinality({k \in 1..Len(q.requests) :
                            DurationBucketItem(q.requests[k]) = DurationBucketItem(r)})
        IN  /\ q.DurationBoundaries = B
            /\ \A r \in Loaded :
                 IF r.Duration >= 0 /\ r.Duration < 2000
                   THEN \E i \in 1..Len(H) :
                          /\ holders(r) = {i}
                          /\ \E k \in 1..10 : /\ H[i].ID = B[k]
                                              /\ B[k] <= r.Duration
                                              /\ r.Duration < B[k + 1]
                          /\ Occurrences(H[i].Data, DurationBucketItem(r)) = copies(r)
                   ELSE holders(r) = {}
            /\ \A i \in 1..Len(H) :
                 /\ H[i].Data # <<>>
                 /\ H[i].Count = Len(H[i].Data)
                 /\ \A j \in 1..Len(H[i].Data) :
                        \E r \in Loaded : DurationBucketItem(r) = H[i].Data[j]
            /\ \A i, j \in 1..Len(H) : i < j => H[i].ID < H[j].ID

\* C12 witness: durations 19, 20 and 2000 were loaded; 19 is reported in
\* bucket 0, 20 in bucket 20, and these two buckets are all that is reported.
C12_Witness ==
    /\ Returned("analyze")
    /\ {r.Duration : r \in Loaded} = {19, 20, 2000}
    /\ Len(q.Duration) = 2
    /\ q.Duration[1].ID = 0 /\ q.Duration[1].Data[1].Duration = 19
    /\ q.Duration[2].ID = 20 /\ q.Duration[2].Data[1].Duration = 20

TimeMembers == UNION {{b.Data[j].ID : j \in 1..Len(b.Data)} : b \in Range(q.CreatedAt)}

\* C13: for every analyzed range, a record whose creation timestamp equals
\* from, or equals to, is a member of no time bucket.
C13_TimeEdges ==
    Returned("analyze") =>
        \A r \in table :
            r.CreatedAt \in {q.FromDate, q.ToDate} => r.ID \notin TimeMembers

\* C13 witness: a record created at from, one created at to and one in
\* between were loaded, and only the one in between is in a time bucket.
C13_Witness ==
    /\ Returned("analyze")
    /\ q.FromDate < q.ToDate
    /\ \E a, b, c \in Loaded :
          /\ a.CreatedAt = q.FromDate
          /\ b.CreatedAt = q.ToDate
          /\ TimeMembers = {c.ID}

\* The values from, from+step, from+2*step, ... that are strictly less than to.
Stepped(from, to, step) ==
    LET n == IF from < to THEN (to - from + step - 1) \div step ELSE 0
    IN  [k \in 1..n |-> from + (k - 1) * step]

\* C14 as stated: the boundary list is the stepped values below to followed
\* by to, so a range with from < to has an interval and the last ends at to.
C14_Original ==
    Returned("analyze") =>
        /\ q.ranges = Append(Stepped(q.FromDate, q.ToDate, StepFor(q.ToDate - q.FromDate)),
                             q.ToDate)
        /\ q.FromDate < q.ToDate => (Len(q.ranges) >= 2 /\ q.ranges[Len(q.ranges)] = q.ToDate)

\* C14 amended: the same list when at least two stepped values lie below to;
\* otherwise (a range of at most one step, or from >= to) the list is
\* from, to, to. Either way a range with from < to has its first interval
\* starting at from, and the last boundary is to.
C14_Boundaries ==
    Returned("analyze") =>
        LET s == Stepped(q.FromDate, q.ToDate, StepFor(q.ToDate - q.FromDate))
        IN  /\ q.ranges = IF Len(s) >= 2 THEN Append(s, q.ToDate)
                          ELSE <<q.FromDate, q.ToDate, q.ToDate>>
            /\ q.FromDate < q.ToDate =>
                 /\ Len(q.ranges) >= 2
                 /\ q.ranges[1] = q.FromDate
                 /\ q.ranges[Len(q.ranges)] = q.ToDate

\* C14 witness: a range shorter than one step was analyzed with a record
\* loaded, and the list is from, to, to.
C14_Witness ==
    /\ Returned("analyze")
    /\ q.FromDate < q.ToDate
    /\ q.ToDate - q.FromDate < StepFor(q.ToDate - q.FromDate)
    /\ Loaded # {}
    /\ q.ranges = <<q.FromDate, q.ToDate, q.ToDate>>

\* C15: the step between the boundaries depends on the length to - from only:
\* at most 1 hour gives 1 minute, otherwise at most 24 hours gives 1 hour,
\* otherwise at most 31 days gives 1 day, otherwise 30 days. Observed on the
\* boundary list: all boundaries before the final `to` are one step apart.
C15_StepChoice ==
    Returned("analyze") =>
        LET len == q.ToDate - q.FromDate
            step == IF len <= 3600 THEN 60
                    ELSE IF len <= 86400 THEN 3600
                    ELSE IF len <= 2678400 THEN 86400
                    ELSE 2592000
        IN  len > step =>
              /\ Len(q.ranges) >= 3
              /\ \A i \in 1..(Len(q.ranges) - 2) : q.ranges[i + 1] - q.ranges[i] = step
              /\ q.ToDate - q.ranges[Len(q.ranges) - 1] <= step

\* C15 witness: a range of exactly 24 hours was analyzed with records loaded
\* and its boundaries are one hour apart.
C15_Witness ==
    /\ Returned("analyze")
    /\ q.ToDate - q.FromDate = 24 * Hour
    /\ Loaded # {}
    /\ Len(q.ranges) = 25
    /\ q.ranges[2] - q.ranges[1] = Hour

\* C16: histogram members are grouped by (method, path without its query
\* string); each group with a successful member is reported once, with count,
\* min, max and average (sum over count) of the durations of its successful
\* members; failed records and records with duration >= 2000 are in no group,
\* and nothing else is reported.
C16_EndpointStats ==
    Returned("analyze") =>
        LET path(r) == IF r.Path = "" THEN r.URL ELSE r.Path
            stripped(p, u) ==
                /\ Len(p) <= Len(u)
                /\ SubSeq(u, 1, Len(p)) = p
                /\ \A i \in 1..Len(p) : At(p, i) # "?"
                /\ Len(p) < Len(u) => At(u, Len(p) + 1) = "?"
            counted(r) == r.Success /\ r.Duration >= 0 /\ r.Duration < 2000
            in(r, e) == counted(r) /\ r.Method = e.Method /\ stripped(e.URL, path(r))
            members(e) == SelectSeq(q.requests, LAMBDA r : in(r, e))
            durations(e) == [i \in 1..Len(members(e)) |-> members(e)[i].Duration]
        IN  /\ \A r \in Loaded :
                 counted(r) <=> \E e \in q.DurationURLs : in(r, e)
            /\ \A e \in q.DurationURLs :
                 /\ e.Count = Len(members(e))
                 /\ e.Count >= 1
                 /\ e.Min \in Range(durations(e)) /\ \A d \in Range(durations(e)) : e.Min <= d
                 /\ e.Max \in Range(durations(e)) /\ \A d \in Range(durations(e)) : e.Max >= d
                 /\ e.Average = [sum |-> SumSeq(durations(e)), count |-> e.Count]
            /\ \A e1, e2 \in q.DurationURLs :
                 (e1.Method = e2.Method /\ e1.URL = e2.URL) => e1 = e2

\* C16 witness: GET /users has two successful members, one of them stored
\* with a query string, and a failed one; it is reported with count 2, min 0,
\* max 19 and average 19/2, and it is the only group.
C16_Witness ==
    /\ Returned("analyze")
    /\ Cardinality(Loaded) = 3
    /\ \E r \in Loaded : ~r.Success /\ r.Method = "GET" /\ r.Path = "/users" /\ r.Duration < 2000
    /\ q.DurationURLs = {[Method |-> "GET", URL |-> "/users", Min |-> 0, Max |-> 19,
                          Average |-> [sum |-> 19, count |-> 2], Count |-> 2]}

\* C17: each scalar total the sink answered is the count over the inclusive
\* range [from, to], whatever the bucketing does: total of all records in the
\* range, success of those with success = true, exceptions of those with
\* response status 500; a record with duration >= 2000 or created exactly on
\* a boundary counts. (A count the sink failed to answer: see C18.)
C17_ScalarTotals ==
    Returned("analyze") =>
        LET inRange == {r \in table : q.FromDate <= r.CreatedAt /\ r.CreatedAt <= q.ToDate}
        IN  /\ "total" \notin q.failed => q.Total = Cardinality(inRange)
            /\ "success" \notin q.failed =>
                 q.Success = Cardinality({r \in inRange : r.Success})
            /\ "exceptions" \notin q.failed =>
                 q.Exceptions = Cardinality({r \in inRange : r.Response.statusCode = 500})

\* C17 witness: every query was answered; a record created exactly at `to`
\* with duration >= 2000 is in no bucket, yet total is 3, with a successful
\* record and an exception among them.
C17_Witness ==
    /\ Returned("analyze")
    /\ q.failed = {}
    /\ \E r \in Loaded :
          /\ r.CreatedAt = q.ToDate
          /\ r.Duration >= 2000
          /\ r.ID \notin TimeMembers
          /\ \A i \in 1..Len(q.Duration) : Occurrences(q.Duration[i].Data, DurationBucketItem(r)) = 0
    /\ q.Total = 3
    /\ q.Success >= 1
    /\ q.Exceptions >= 1

\* C18: when a sink query of Analyze or of a listing failed, the operation
\* has returned an error to its caller, not a result.
C18_FailuresPropagate ==
    (qpc = "returned" /\ q.failed # {}) => q.err

\* C19: per-page is 20 when absent, unparsable or not positive and at most
\* 50; page is 1 when absent, unparsable or below 1; the offset is
\* perPage x (page - 1) with these values, so perPage is in 1..50 and page 1
\* gives offset 0.
C19_Pagination ==
    Returned("findAll") =>
        LET pp == Atoi(q.f.PerPage)
            pg == Atoi(q.f.Page)
            perPage == IF q.f.PerPage = "" \/ pp.err \/ pp.v <= 0 THEN 20
                       ELSE IF pp.v > 50 THEN 50 ELSE pp.v
            page == IF q.f.Page = "" \/ pg.err \/ pg.v < 1 THEN 1 ELSE pg.v
        IN  /\ q.perPage = perPage
            /\ q.perPage \in 1..50
            /\ q.skip = perPage * (page - 1)
            /\ page = 1 => q.skip = 0

\* C20 as stated: the range is [now-24h, now] whenever either bound is absent
\* or does not parse as RFC3339, and the supplied range only when both parse.
C20_Original ==
    Returned("analyze") =>
        LET pf == ParseRFC3339(q.f.FromDate)
            pt == ParseRFC3339(q.f.ToDate)
        IN  <<q.FromDate, q.ToDate>> =
                IF pf.err \/ pt.err THEN <<now - 24 * 3600, now>> ELSE <<pf.t, pt.t>>

\* C20 amended: each bound is resolved on its own: from is the supplied
\* date-from when it parses and now-24h otherwise; to is the supplied date-to
\* when it parses and now otherwise.
C20_EachBound ==
    Returned("analyze") =>
        LET pf == ParseRFC3339(q.f.FromDate)
            pt == ParseRFC3339(q.f.ToDate)
        IN  /\ q.FromDate = IF pf.err THEN now - 24 * 3600 ELSE pf.t
            /\ q.ToDate = IF pt.err THEN now ELSE pt.t

\* C20 witness: date-from was absent and date-to was supplied; the range
\* analyzed runs from now-24h to the supplied date-to, and records were loaded.
C20_Witness ==
    /\ Returned("analyze")
    /\ q.f.FromDate = ""
    /\ ~ParseRFC3339(q.f.ToDate).err
    /\ q.FromDate = now - 24 * 3600
    /\ q.ToDate # now
    /\ Loaded # {}


\* ------------------------------------------------------- JobService.FindAll
\* models.JobLog, as far as the listing reads it.
JobLog(id, name, ok, at, metadata) ==
    [ID |-> id, Name |-> name, Success |-> ok, Metadata |-> metadata, CreatedAt |-> at]

SampleJobs ==
    {JobLog(4, "backup", TRUE, T0, "{}"),
     JobLog(3, "backup-db", FALSE, T0 + Hour, "{\"rows\":3}"),
     JobLog(2, "email", TRUE, T0 + 2 * Hour, "null"),
     JobLog(1, "cleanup", TRUE, T0 - Hour, "{}")}

\* dto.JobFilter: the base fields, Name and the optional Success.
JobFilter(base, name, success) ==
    [Page |-> base.Page, PerPage |-> base.PerPage, SortKey |-> base.SortKey,
     SortDir |-> base.SortDir, FromDate |-> base.FromDate, ToDate |-> base.ToDate,
     Name |-> name, Success |-> success]

\* The WHERE clause of the job listing, as a test of one row.
JobWhere(f, range, r) ==
    /\ Between(r.CreatedAt, range.from, range.to)
    /\ f.Name # "" => Contains(r.Name, f.Name)
    /\ f.Success # <<>> => r.Success = f.Success[1]

JobFindAllCall(f) ==
    /\ qpc = "idle"
    /\ qpc' = "jobCount"
    /\ q' = [op |-> "jobFindAll", f |-> f, range |-> parseDateRange(f, now),
             total |-> 0, failed |-> {}, err |-> FALSE]
    /\ UNCHANGED <<table, jobs, now, pipelineVars>>

\* q.Count(&total), unchecked; a sink error stays in the statement q.
JobFindAllCount(ok) ==
    /\ qpc = "jobCount"
    /\ qpc' = "jobFind"
    /\ q' = IF ok THEN [q EXCEPT !.total = Cardinality({r \in jobs : JobWhere(q.f, q.range, r)})]
            ELSE [q EXCEPT !.failed = @ \cup {"total"}]
    /\ UNCHANGED <<table, jobs, now, pipelineVars>>

JobFindAllFind(ok) ==
    /\ qpc = "jobFind"
    /\ qpc' = "returned"
    /\ LET p == pagination(q.f)
           failed == IF ok THEN q.failed ELSE q.failed \cup {"rows"}
       IN  q' = IF failed # {}
                  THEN [op |-> "jobFindAll", f |-> q.f, failed |-> failed, err |-> TRUE]
                  ELSE [op |-> "jobFindAll", f |-> q.f, failed |-> failed, err |-> FALSE,
                        range |-> q.range,
                        perPage |-> p.perPage, skip |-> p.skip, Total |-> q.total,
                        Data |-> Page(Sorted({r \in jobs : JobWhere(q.f, q.range, r)},
                                             q.f.SortKey, OrderDir(q.f)),
                                      p.skip, p.perPage)]
    /\ UNCHANGED <<table, jobs, now, pipelineVars>>

\* ------------------------------------------------------ the listing service
\* The filters of the request listing: every sort key and direction over
\* two date ranges, and the product of the exception flag, the status code
\* and six choices of URL, Method, Success, DurationGt and DurationLt.
RequestFilters ==
    {RequestFilter([BaseFilter("", "", d[1], d[2]) EXCEPT !.SortKey = s[1], !.SortDir = s[2]],
                   "", "", <<>>, <<>>, <<>>, <<>>, <<>>) :
        s \in {"", "duration", "id"} \X {"", "ASC", "DESC"},
        d \in {<<"", "">>, <<"2024-03-01T00:00:00Z", "2024-03-02T00:00:00Z">>}}
    \cup
    {RequestFilter(BaseFilter("", "", "2024-03-01T00:00:00Z", "2024-03-02T00:00:00Z"),
                   o[1], o[2], e, o[3], o[4], o[5], c) :
        o \in {<<"", "", <<>>, <<>>, <<>>>>,
               <<"users", "", <<>>, <<>>, <<>>>>,
               <<"", "GET,POST", <<TRUE>>, <<>>, <<>>>>,
               <<"", "POST", <<>>, <<20>>, <<>>>>,
               <<"", "", <<FALSE>>, <<>>, <<2000>>>>,
               <<"s", "GET", <<>>, <<19>>, <<150>>>>},
        e \in {<<>>, <<TRUE>>, <<FALSE>>},
        c \in {<<>>, <<500>>, <<404>>, <<200>>}}

JobFilters ==
    {JobFilter([BaseFilter("", "", "2024-03-01T00:00:00Z", "2024-03-02T00:00:00Z")
                    EXCEPT !.SortKey = s[1], !.SortDir = s[2]], n, ok) :
        s \in {"", "id"} \X {"", "ASC", "DESC"}, n \in {"", "backup"}, ok \in {<<>>, <<TRUE>>}}

InitList ==
    /\ WriterInit([BufferSize |-> 0, BatchSize |-> 0, Workers |-> 0], 0)
    /\ table \in Tables
    /\ jobs \in {S \in SUBSET SampleJobs : Cardinality(S) \in 2..MaxRows}
    /\ now \in Nows
    /\ qpc = "idle"
    /\ q = [op |-> "none"]

NextList ==
    \/ \E f \in RequestFilters : FindAllCall(f)
    \/ \E ok \in BOOLEAN : FindAllCount(ok)
    \/ \E ok \in BOOLEAN : FindAllFind(ok)
    \/ \E f \in JobFilters : JobFindAllCall(f)
    \/ \E ok \in BOOLEAN : JobFindAllCount(ok)
    \/ \E ok \in BOOLEAN : JobFindAllFind(ok)

SpecList == InitList /\ [][NextList]_vars

\* --------------------------------------------------------- listing claims
\* C21: a listing of either record kind is in descending order of its sort
\* key whatever the requested direction; the key is the requested one, or
\* the creation time when none is given.
C21_AlwaysDescending ==
    (Returned("findAll") \/ Returned("jobFindAll")) =>
        LET key == IF q.f.SortKey = "" THEN "created_at" ELSE q.f.SortKey
            val(r) == CASE key = "created_at" -> r.CreatedAt
                        [] key = "duration" -> r.Duration
                        [] key = "id" -> r.ID
        IN  \A i, j \in 1..Len(q.Data) : i < j => val(q.Data[i]) >= val(q.Data[j])

C21_Witness ==
    /\ Returned("findAll")
    /\ q.f.SortDir = "ASC"
    /\ q.f.SortKey = "duration"
    /\ Len(q.Data) >= 2
    /\ q.Data[1].Duration > q.Data[2].Duration
    /\ q.Data[1].CreatedAt < q.Data[2].CreatedAt


\* C22: in the request listing, a true exception flag makes the status
\* predicate "status = 500" and an explicit status code is then ignored; with
\* the flag absent or false an explicit status code is applied as given; the
\* URL substring, method list, success and duration bounds are applied
\* whatever that choice is.
C22_StatusPredicate ==
    Returned("findAll") =>
        LET f == q.f
            status(r) ==
                IF f.Exception = <<TRUE>> THEN r.Response.statusCode = 500
                ELSE IF f.StatusCode # <<>> THEN r.Response.statusCode = f.StatusCode[1]
                ELSE TRUE
            others(r) ==
                /\ f.URL # "" => \E i \in 1..(Len(r.URL) - Len(f.URL) + 1) :
                                    SubSeq(r.URL, i, i + Len(f.URL) - 1) = f.URL
                /\ f.Method # "" => r.Method \in SplitComma(f.Method)
                /\ f.Success # <<>> => r.Success = f.Success[1]
                /\ f.DurationGt # <<>> => r.Duration >= f.DurationGt[1]
                /\ f.DurationLt # <<>> => r.Duration <= f.DurationLt[1]
            expected == {r \in table : /\ q.range.from <= r.CreatedAt
                                       /\ r.CreatedAt <= q.range.to
                                       /\ status(r) /\ others(r)}
        IN  /\ Range(q.Data) = expected
            /\ Len(q.Data) = Cardinality(expected)
            /\ q.Total = Cardinality(expected)

C22_Witness ==
    /\ Returned("findAll")
    /\ q.f.Exception = <<TRUE>>
    /\ q.f.StatusCode = <<404>>
    /\ q.f.DurationLt = <<2000>>
    /\ \E r \in table : /\ r.Response.statusCode = 404
                        /\ r.CreatedAt >= q.range.from /\ r.CreatedAt <= q.range.to
                        /\ r \notin Range(q.Data)
    /\ \E r \in table : r.Response.statusCode = 500 /\ r.Duration > 2000
    /\ Len(q.Data) = 1
    /\ q.Data[1].Response.statusCode = 500


\* ---------------------------------------------------------- JobService.Create
\* json.Valid on text without white space: the positions just after a JSON
\* value that starts at position i, nested at most d deep.
MaxJSONDepth == 2

StartsWith(s, i, w) == i + Len(w) - 1 <= Len(s) /\ SubSeq(s, i, i + Len(w) - 1) = w

StringEnds(s, i) ==
    IF ~StartsWith(s, i, "\"") THEN {}
    ELSE {j + 1 : j \in {j \in (i + 1)..Len(s) :
                            /\ At(s, j) = "\""
                            /\ \A k \in (i + 1)..(j - 1) : At(s, k) \notin {"\"", "\\"}}}

RECURSIVE ValueEnds(_, _, _)
RECURSIVE ItemsEnds(_, _, _, _)
ValueEnds(s, i, d) ==
    LET digits == IF StartsWith(s, i, "-") THEN i + 1 ELSE i
    IN
    {i + Len(w) : w \in {w \in {"null", "true", "false"} : StartsWith(s, i, w)}}
    \cup {j \in (digits + 1)..(Len(s) + 1) :
            /\ \A k \in digits..(j - 1) : At(s, k) \in Digits
            /\ At(s, digits) = "0" => j = digits + 1}
    \cup StringEnds(s, i)
    \cup (IF StartsWith(s, i, "[]") \/ StartsWith(s, i, "{}") THEN {i + 2} ELSE {})
    \cup (IF d > 0 /\ StartsWith(s, i, "[") THEN ItemsEnds(s, i + 1, d - 1, FALSE) ELSE {})
    \cup (IF d > 0 /\ StartsWith(s, i, "{") THEN ItemsEnds(s, i + 1, d - 1, TRUE) ELSE {})

\* The positions just after the closing bracket of a non-empty array (or
\* object, with members "key":value) whose first item starts at i.
ItemsEnds(s, i, d, object) ==
    LET starts == IF ~object THEN {i}
                  ELSE {k + 1 : k \in {k \in StringEnds(s, i) : StartsWith(s, k, ":")}}
        ends == UNION {ValueEnds(s, k, d) : k \in starts}
        close == IF object THEN "}" ELSE "]"
    IN  {e + 1 : e \in {e \in ends : StartsWith(s, e, close)}}
        \cup UNION {ItemsEnds(s, e + 1, d, object) : e \in {e \in ends : StartsWith(s, e, ",")}}

Valid(s) == Len(s) + 1 \in ValueEnds(s, 1, MaxJSONDepth)


\* json.Marshal of the Go values the model passes as metadata.
Marshal(v) ==
    CASE v.type = "nil" -> [err |-> FALSE, b |-> "null"]
      [] v.type = "int" -> [err |-> FALSE, b |-> Itoa(v.n)]
      [] v.type = "string" -> [err |-> FALSE, b |-> "\"" \o v.s \o "\""]
      [] v.type = "map" -> [err |-> FALSE, b |-> "{\"" \o v.key \o "\":" \o Itoa(v.n) \o "}"]
      [] v.type \in {"chan", "func"} -> [err |-> TRUE, b |-> ""]

\* Fault: raw bytes are taken without validation.
toJSON_Unchecked(v) ==
    IF v.type \in {"json.RawMessage", "[]byte", "datatypes.JSON"}
    THEN [err |-> FALSE, json |-> v.bytes]
    ELSE [err |-> Marshal(v).err, json |-> Marshal(v).b]

\* toJSON: raw bytes are validated in place, any other value is marshalled.
toJSON(v) ==
    IF v.type \in {"json.RawMessage", "[]byte", "datatypes.JSON"}
    THEN IF Valid(v.bytes) THEN [err |-> FALSE, json |-> v.bytes]
         ELSE [err |-> TRUE, json |-> ""]
    ELSE [err |-> Marshal(v).err, json |-> Marshal(v).b]

\* Monitor.LogJob -> JobService.Create: toJSON, and the early return on its
\* error; sinkCalls counts the statements sent to the database.
CreateCall(name, success, metadata) ==
    /\ qpc = "idle"
    /\ LET j == toJSON(metadata)
       IN  IF j.err
           THEN /\ qpc' = "returned"
                /\ q' = [op |-> "create", name |-> name, success |-> success,
                         metadata |-> metadata, before |-> jobs, sinkCalls |-> 0,
                         err |-> TRUE]
           ELSE /\ qpc' = "insert"
                /\ q' = [op |-> "create", name |-> name, success |-> success,
                         metadata |-> metadata, before |-> jobs, sinkCalls |-> 0,
                         metaJSON |-> j.json, err |-> FALSE]
    /\ UNCHANGED <<table, jobs, now, pipelineVars>>

\* s.DB.Create(&models.JobLog{...}).Error is returned.
CreateInsert(ok) ==
    /\ qpc = "insert"
    /\ qpc' = "returned"
    /\ LET \* the primary key the database gives the new row
           id == IF jobs = {} THEN 1
                 ELSE 1 + CHOOSE n \in {r.ID : r \in jobs} : \A r \in jobs : r.ID <= n
       IN  jobs' = IF ok THEN jobs \cup {JobLog(id, q.name, q.success, now, q.metaJSON)}
                   ELSE jobs
    /\ q' = [q EXCEPT !.sinkCalls = @ + 1, !.err = ~ok]
    /\ UNCHANGED <<table, now, pipelineVars>>

\* ------------------------------------------------------- JobService.ClearAll
ClearAllCall ==
    /\ qpc = "idle"
    /\ qpc' = "deleteRequests"
    /\ q' = [op |-> "clearAll", requestsBefore |-> table, jobsBefore |-> jobs,
             deleted |-> {}, failed |-> {}, err |-> FALSE]
    /\ UNCHANGED <<table, jobs, now, pipelineVars>>

\* Fault: the job rows are deleted even after the first delete failed.
AfterRequests_Continue(ok) == "deleteJobs"

\* if err := ...Delete(&models.RequestLog{}).Error; err != nil { return err }
AfterRequests(ok) == IF ok THEN "deleteJobs" ELSE "returned"

ClearAllDeleteRequests(ok) ==
    /\ qpc = "deleteRequests"
    /\ qpc' = AfterRequests(ok)
    /\ table' = IF ok THEN {} ELSE table
    /\ q' = IF ok THEN [q EXCEPT !.deleted = @ \cup {"requests"}]
            ELSE [q EXCEPT !.failed = @ \cup {"requests"}, !.err = TRUE]
    /\ UNCHANGED <<jobs, now, pipelineVars>>

\* return s.DB.Where("1 = 1").Delete(&models.JobLog{}).Error
ClearAllDeleteJobs(ok) ==
    /\ qpc = "deleteJobs"
    /\ qpc' = "returned"
    /\ jobs' = IF ok THEN {} ELSE jobs
    /\ q' = IF ok THEN [q EXCEPT !.deleted = @ \cup {"jobs"}]
            ELSE [q EXCEPT !.failed = @ \cup {"jobs"}, !.err = TRUE]
    /\ UNCHANGED <<table, now, pipelineVars>>

\* A worker's flush stores a record while the call is under way.
SinkInsert(r) ==
    /\ qpc \notin {"off", "idle", "returned"}
    /\ r \notin table
    /\ Cardinality(table) < MaxRows
    /\ table' = table \cup {r}
    /\ UNCHANGED <<jobs, now, qpc, q, pipelineVars>>

\* The values passed as metadata: raw bytes of the three byte types, valid
\* and not, values json.Marshal accepts, and two it rejects.
Metadatas ==
    {[type |-> "json.RawMessage", bytes |-> "{\"rows\":3}"],
     [type |-> "json.RawMessage", bytes |-> "{bad"],
     [type |-> "[]byte", bytes |-> "[1,{\"a\":null}]"],
     [type |-> "[]byte", bytes |-> ""],
     [type |-> "datatypes.JSON", bytes |-> "{}"],
     [type |-> "datatypes.JSON", bytes |-> "[1,"],
     [type |-> "nil"],
     [type |-> "int", n |-> -7],
     [type |-> "string", s |-> "ok"],
     [type |-> "map", key |-> "rows", n |-> 3],
     [type |-> "chan"],
     [type |-> "func"]}

InitJobs ==
    /\ WriterInit([BufferSize |-> 0, BatchSize |-> 0, Workers |-> 0], 0)
    /\ table \in {S \in Tables : \A r \in S : r.ID <= 3}
    /\ jobs \in {S \in SUBSET SampleJobs : Cardinality(S) <= MaxRows}
    /\ now \in Nows
    /\ qpc = "idle"
    /\ q = [op |-> "none"]

NextJobs ==
    \/ \E name \in {"backup", "email"}, success \in BOOLEAN, metadata \in Metadatas :
            CreateCall(name, success, metadata)
    \/ \E ok \in BOOLEAN : CreateInsert(ok)
    \/ ClearAllCall
    \/ \E ok \in BOOLEAN : ClearAllDeleteRequests(ok)
    \/ \E ok \in BOOLEAN : ClearAllDeleteJobs(ok)
    \/ \E r \in {r \in SampleRows : r.ID \in 4..5} : SinkInsert(r)

SpecJobs == InitJobs /\ [][NextJobs]_vars

C24_ClearAll ==
    (qpc = "returned" /\ q.op = "clearAll") =>
        /\ ~q.err => table \cap q.requestsBefore = {} /\ jobs \cap q.jobsBefore = {}
        /\ "requests" \in q.failed => q.err /\ jobs = q.jobsBefore /\ "jobs" \notin q.deleted
        /\ "jobs" \in q.failed =>
              /\ q.err
              /\ "requests" \in q.deleted
              /\ table \cap q.requestsBefore = {}
              /\ jobs = q.jobsBefore

C24_Witness ==
    /\ qpc = "returned" /\ q.op = "clearAll"
    /\ "jobs" \in q.failed
    /\ q.requestsBefore # {}
    /\ q.jobsBefore # {}
    /\ table # {}


\* ------------------------------------------------ pipeline claims, continued
\* C25: for any number of workers and any interleaving, a record accepted by
\* Write is handed to the sink in at most one flush call, by one worker, and
\* in exactly one once the pipeline has been shut down; until then it is in
\* exactly one place; only accepted records are flushed, as they were
\* written, and a record dropped at enqueue is in no flush.
C25_Conservation ==
    /\ LET \* the flush calls and positions at which r was handed to the sink
           Handoffs(r) ==
               UNION {{<<i, k>> : k \in {k \in 1..Len(flushes[i].recs) : flushes[i].recs[k] = r}} :
                         i \in 1..Len(flushes)}
           \* where r is held before that: queue positions, and batches of
           \* workers that are not inside a flush of that batch
           Holders(r) ==
               {<<"queue", k>> : k \in {k \in 1..Len(ch.buf) : ch.buf[k] = r}}
               \cup {<<"batch", w>> :
                        w \in {w \in Workers : wpc[w] = "select" /\ r \in Range(batch[w])}}
       IN  \A r \in Range(accepted) :
               /\ Cardinality(Handoffs(r)) + Cardinality(Holders(r)) = 1
               /\ done => Cardinality(Handoffs(r)) = 1
    /\ Flushed \subseteq Range(accepted)
    /\ Len(accepted) = Cardinality(Range(accepted))
    /\ (dropped \cup late) \cap Flushed = {}

C25_Witness ==
    /\ done
    /\ Len(accepted) >= 2
    /\ \E i, j \in 1..Len(flushes) : flushes[i].worker # flushes[j].worker
    /\ \E i \in 1..Len(flushes) : flushes[i].res = "err"


\* C26: under every interleaving of Write and Shutdown no Write attempts a
\* send on the closed queue: while a Write that read closed = false has its
\* send to make, the queue is open and Shutdown has not passed its Lock; and
\* the closed flag, once true, stays true.
C26_NoSendAfterClose ==
    /\ [](/\ ~panicked
          /\ (\E p \in Producers : ppc[p] = "send") =>
                             /\ ~ch.closed
                             /\ ~closed
                             /\ \A s \in Closers : spc[s] \in {"idle", "lock", "lockWait", "onceWait", "returned"}
          /\ ch.closed => closed)
    /\ [][closed => closed']_vars

C26_Witness ==
    /\ \E p \in Producers : ppc[p] = "send"
    /\ \E s \in Closers : spc[s] = "lockWait"
    /\ mu.writer = "pending"


\* C27: with a single worker the flushed batches, concatenated in flush
\* order, followed by what the worker and the queue still hold, are the
\* accepted records in the order their Write calls succeeded, and after
\* shutdown the flushed batches alone are; with any number of workers each
\* single batch is in that order.
C27_EnqueueOrder ==
    /\ NumWorkers = 1 =>
          \A w \in Workers : wpc[w] # "absent" =>
              /\ FlushedInOrder \o (IF wpc[w] = "select" THEN batch[w] ELSE <<>>) \o ch.buf
                    = accepted
              /\ done => FlushedInOrder = accepted
    /\ LET AcceptedAt(r) == CHOOSE k \in 1..Len(accepted) : accepted[k] = r
       IN  \A i \in 1..Len(flushes) : \A j, k \in 1..Len(flushes[i].recs) :
               j < k => AcceptedAt(flushes[i].recs[j]) < AcceptedAt(flushes[i].recs[k])

C27_Witness ==
    /\ NumWorkers = 1
    /\ done
    /\ Len(flushes) >= 2
    /\ FlushedInOrder = accepted

\* C28: every flush call carries between 1 and batchSize records, a worker
\* waiting in select holds fewer than batchSize records, and a flush of fewer
\* than batchSize records was started by a timer tick or by the closure of
\* the queue.
C28_FlushSizes ==
    /\ \A i \in 1..Len(flushes) :
          /\ 1 <= Len(flushes[i].recs)
          /\ Len(flushes[i].recs) <= batchSize
          /\ Len(flushes[i].recs) < batchSize => flushes[i].why \in {"tick", "close"}
    /\ \A w \in Workers : wpc[w] = "select" => Len(batch[w]) \in 0..(batchSize - 1)

C28_Witness ==
    /\ batchSize >= 2
    /\ \E i, j \in 1..Len(flushes) :
          /\ Len(flushes[i].recs) < batchSize /\ flushes[i].why = "tick"
          /\ Len(flushes[j].recs) < batchSize /\ flushes[j].why = "close"


\* ------------------------------------------- Analyze beside a live pipeline
InitAnalyzeLive ==
    /\ WriterInit([BufferSize |-> 0, BatchSize |-> 0, Workers |-> 0], 0)
    /\ table \in {S \in Tables : \A r \in S : r.ID \in {1, 3, 8}}
    /\ jobs = {}
    /\ now \in Nows
    /\ qpc = "idle"
    /\ q = [op |-> "none"]

NextAnalyzeLive ==
    \/ \E f \in {BaseFilter("", "", d[1], d[2]) :
                    d \in {<<"", "">>, <<"2024-03-01T00:00:00Z", "2024-03-02T00:00:00Z">>}} :
            AnalyzeCall(f)
    \/ \E ok \in BOOLEAN : AnalyzeCountTotal(ok)
    \/ \E ok \in BOOLEAN : AnalyzeCountSuccess(ok)
    \/ \E ok \in BOOLEAN : AnalyzeCountExceptions(ok)
    \/ \E ok \in BOOLEAN : AnalyzeFind(ok)
    \/ AnalyzeReturn
    \/ \E r \in {r \in SampleRows : r.ID \in {2, 5, 6, 7}} : SinkInsert(r)

SpecAnalyzeLive == InitAnalyzeLive /\ [][NextAnalyzeLive]_vars

\* The sum of the counts of a list of buckets.
CountSum(buckets) == SumSeq([i \in 1..Len(buckets) |-> buckets[i].Count])

\* C29 as stated: in every Analyze result success <= total, exceptions <=
\* total and the sums of the duration-bucket and of the time-bucket counts
\* are <= total, also when workers flush between Analyze's four queries.
C29_Original ==
    Returned("analyze") =>
        /\ q.Success <= q.Total
        /\ q.Exceptions <= q.Total
        /\ CountSum(q.Duration) <= q.Total
        /\ CountSum(q.CreatedAt) <= q.Total

\* C29 amended: the bucketed record set of every Analyze result is
\* consistent with the records its last query loaded: the sum of the
\* duration-bucket counts and the sum of the time-bucket counts are each at
\* most the number of loaded records, also when workers flush between the
\* four queries.
C29_LoadedConsistent ==
    Returned("analyze") =>
        /\ CountSum(q.Duration) <= Len(q.requests)
        /\ CountSum(q.CreatedAt) <= Len(q.requests)

\* C29 witness: every query was answered, and a flush between them left the
\* result with more successes than total and more bucketed records than total.
C29_Witness ==
    /\ Returned("analyze")
    /\ q.failed = {}
    /\ q.Success > q.Total
    /\ CountSum(q.Duration) > q.Total
    /\ CountSum(q.CreatedAt) >= 1


\* C30: time buckets are disjoint. A loaded record is an item of at most one
\* time bucket; of exactly one, the bucket identified by the start of the
\* interval whose open range holds its timestamp, if and only if its
\* timestamp is strictly between from and to and is no interior boundary
\* from + k*step; no reported bucket is empty.
C30_TimeDisjoint ==
    Returned("analyze") =>
        LET from == q.FromDate
            to == q.ToDate
            step == StepFor(to - from)
            interior == {b \in {from + k * step : k \in 1..Len(q.ranges)} : b < to}
            starts == {from} \cup interior
            holders(r) == {i \in 1..Len(q.CreatedAt) :
                              \E k \in 1..Len(q.CreatedAt[i].Data) :
                                  q.CreatedAt[i].Data[k].ID = r.ID}
            inside(r) == /\ from < r.CreatedAt /\ r.CreatedAt < to
                         /\ r.CreatedAt \notin interior
        IN  /\ \A r \in Loaded :
                  /\ Cardinality(holders(r)) = (IF inside(r) THEN 1 ELSE 0)
                  /\ \A i \in holders(r) :
                        /\ q.CreatedAt[i].ID \in starts
                        /\ q.CreatedAt[i].ID < r.CreatedAt
                        /\ \A s \in starts : s < r.CreatedAt => s <= q.CreatedAt[i].ID
                        /\ Occurrences([k \in 1..Len(q.CreatedAt[i].Data) |->
                                            q.CreatedAt[i].Data[k].ID], r.ID) = 1
            /\ \A i \in 1..Len(q.CreatedAt) :
                  /\ q.CreatedAt[i].Count >= 1
                  /\ q.CreatedAt[i].Count = Len(q.CreatedAt[i].Data)
                  /\ \A k \in 1..Len(q.CreatedAt[i].Data) :
                        \E r \in Loaded : r.ID = q.CreatedAt[i].Data[k].ID
            /\ \A i, j \in 1..Len(q.CreatedAt) : i < j => q.CreatedAt[i].ID < q.CreatedAt[j].ID

\* C30 witness: of three loaded records one lies exactly on an interior
\* boundary and is in no bucket, the other two are in two different buckets,
\* and an interval in between has no bucket.
C30_Witness ==
    /\ Returned("analyze")
    /\ Len(q.ranges) >= 5
    /\ Len(q.CreatedAt) = 2
    /\ \E r \in Loaded :
          /\ r.CreatedAt \in Range(q.ranges) \ {q.FromDate, q.ToDate}
          /\ r.ID \notin TimeMembers
    /\ Cardinality(TimeMembers) = 2
====
